---- MODULE Spec2Model ----
(***************************************************************************)
(* A model of the yanvox sparse voxel volume: the Root / Internal / Leaf   *)
(* node hierarchy of src/rust/yanvox/src/voxel, the VoxelVolume facade     *)
(* of voxel.rs, the integer vector / box helpers of math.rs and the        *)
(* marching-cubes mesher of src/rust/yanvox/src/mesh_generation.           *)
(*                                                                         *)
(* The payload type is the i32 payload of voxel_data.rs (background 0,     *)
(* active when non-zero).  Option<T> is modelled as a sequence: None is    *)
(* <<>> and Some(x) is <<x>>.  A dense Vec<Option<X>> is modelled as a     *)
(* function whose domain is the set of indices holding Some: index i is    *)
(* None exactly when i is not in the domain.                               *)
(***************************************************************************)
EXTENDS Integers, Sequences, FiniteSets, TLC

(***************************************************************************)
(* Bounds of the model.                                                    *)
(***************************************************************************)
\* Payloads written by the operations are 0 .. MaxValue.
MaxValue == 2

\* Number of fill_bounds calls explored in one behaviour of SpecFill.
MaxFills == 1

\* World coordinates are multiples of 1/WorldUnit.
WorldUnit == 4

\* Signed distances and iso levels are multiples of 1/SdUnit.
SdUnit == 2

\* Number of with_iso_level calls explored on one MeshBuilder.
MaxIsoLevels == 2

\* Number of triangles of the meshes given to export_stl_binary.
MaxTriangles == 2

(***************************************************************************)
(* Option                                                                  *)
(***************************************************************************)
None == <<>>

Some(x) == <<x>>

IsSome(o) == o # <<>>

Unwrap(o) == o[1]

\* `let v = ...; F(v)`: the value is computed once and bound in the body F
With(v, F(_)) == F(v)

(***************************************************************************)
(* i32 arithmetic.  The bit operations work on the two's-complement bits   *)
(* of a signed integer, one bit per step; a \div 2 is the arithmetic       *)
(* shift right and -1 is the word of all ones.                             *)
(***************************************************************************)
\* 1 << n, for a shift below the width of the word
Shl1(n) == 2 ^ n

\* !a
BitNot(a) == (-a) - 1

RECURSIVE BitAnd(_, _)
\* a & b
BitAnd(a, b) ==
    IF a = 0 \/ b = 0 THEN 0
    ELSE IF a = -1 THEN b
    ELSE IF b = -1 THEN a
    ELSE (a % 2) * (b % 2) + 2 * BitAnd(a \div 2, b \div 2)

(***************************************************************************)
(* math.rs: Vec3i and Bounds3i                                             *)
(***************************************************************************)
I32Max == 2147483647

I32Min == (-2147483647) - 1

Vec3iNew(x, y, z) == <<x, y, z>>

\* Whether the build checks integer arithmetic (rustc -C overflow-checks,
\* on in the dev and test profiles and off in the release profile)
VARIABLE overflow_checks

\* Whether the i32 sum a + b leaves the range of i32
I32AddOverflows(a, b) ==
    \/ b > 0 /\ a > I32Max - b
    \/ b < 0 /\ a < I32Min - b

\* i32 a + b as the build without overflow checks computes it: the sum
\* wrapped to 32 bits
I32Add(a, b) ==
    IF b > 0 /\ a > I32Max - b THEN I32Min + ((a - (I32Max - b)) - 1)
    ELSE IF b < 0 /\ a < I32Min - b THEN I32Max - (((I32Min - b) - a) - 1)
    ELSE a + b

Vec3iAdd(a, b) == <<I32Add(a[1], b[1]), I32Add(a[2], b[2]), I32Add(a[3], b[3])>>

\* Whether self + other panics with "attempt to add with overflow"
Vec3iAddPanics(a, b) ==
    overflow_checks /\ \E n \in 1 .. 3 : I32AddOverflows(a[n], b[n])

MinI(a, b) == IF a < b THEN a ELSE b

MaxI(a, b) == IF a > b THEN a ELSE b

Vec3iMin(a, b) == <<MinI(a[1], b[1]), MinI(a[2], b[2]), MinI(a[3], b[3])>>

Vec3iMax(a, b) == <<MaxI(a[1], b[1]), MaxI(a[2], b[2]), MaxI(a[3], b[3])>>

Bounds3iNew(min, max) == [min |-> min, max |-> max]

Bounds3iEmpty ==
    [min |-> <<I32Max, I32Max, I32Max>>, max |-> <<I32Min, I32Min, I32Min>>]

ExpandBounds(b, other) ==
    [min |-> Vec3iMin(b.min, other.min), max |-> Vec3iMax(b.max, other.max)]

Contains(b, p) ==
    /\ p[1] >= b.min[1] /\ p[1] < b.max[1]
    /\ p[2] >= b.min[2] /\ p[2] < b.max[2]
    /\ p[3] >= b.min[3] /\ p[3] < b.max[3]

(***************************************************************************)
(* voxel_data.rs: the i32 payload                                          *)
(***************************************************************************)
Background == 0

IsActive(v) == v # 0

Values == 0 .. MaxValue

(***************************************************************************)
(* voxel.rs: the tree shapes of VoxelVolume::with_config.  A shape is the  *)
(* pair of const generics of the node types below the root: the LOG2 of    *)
(* the internal node (0 when the root's children are leaves) and of the    *)
(* leaf.                                                                   *)
(***************************************************************************)
Shapes == {"Default", "Hashx2x1", "Hashx5x4"}

HasInternal(shape) == shape # "Default"

InternalLog2(shape) ==
    CASE shape = "Hashx5x4" -> 5
      [] shape = "Hashx2x1" -> 2
      [] OTHER -> 0

LeafLog2(shape) ==
    CASE shape = "Hashx5x4" -> 4
      [] shape = "Hashx2x1" -> 1
      [] OTHER -> 2

\* <LeafNode as ChildNodeTrait>::log2_cum
LeafLog2Cum(shape) == LeafLog2(shape)

\* log2_cum of the internal node without the LOG2 of its child type
InternalLog2CumMutantOwn(shape) == InternalLog2(shape)

\* <InternalNode as ChildNodeTrait>::log2_cum
InternalLog2Cum(shape) == InternalLog2(shape) + LeafLog2Cum(shape)

\* RootNode::log2_cum: the cumulative LOG2 of the root's child type N
RootLog2Cum(shape) ==
    IF HasInternal(shape) THEN InternalLog2Cum(shape) ELSE LeafLog2Cum(shape)

\* key without the mask: the coordinate itself
KeyMutantNoSnap(coord, log2cum) == coord

\* ChildNodeTrait::key for a node type of cumulative LOG2 log2cum
Key(coord, log2cum) ==
    LET size == Shl1(log2cum)
    IN  <<BitAnd(coord[1], BitNot(size - 1)),
          BitAnd(coord[2], BitNot(size - 1)),
          BitAnd(coord[3], BitNot(size - 1))>>

(***************************************************************************)
(* leaf_node.rs: LeafNode<T, LOG2>.  log2 is the const generic LOG2.       *)
(***************************************************************************)
EmptyData == [i \in {} |-> 0]

\* data with slot index set to Some(x)
DataPut(data, index, x) ==
    [i \in (DOMAIN data) \cup {index} |-> IF i = index THEN x ELSE data[i]]

\* data with slot index set to None
DataTake(data, index) == [i \in (DOMAIN data) \ {index} |-> data[i]]

\* data.get(index).and_then(Option::as_ref)
DataGet(data, index) == IF index \in DOMAIN data THEN Some(data[index]) ELSE None

LeafCalculateDimensions(log2) ==
    LET per_axis == Shl1(log2) IN Vec3iNew(per_axis, per_axis, per_axis)

LeafNew(level, bounds) ==
    [background_value |-> Background,
     data             |-> EmptyData,
     origin           |-> bounds.min,
     level            |-> level,
     bounds           |-> bounds,
     active_count     |-> 0]

\* <LeafNode as ChildNodeTrait>::create(key, level): the leaf's box starts at
\* the first argument, whatever the caller passes.  (The trait declares a
\* third parameter, background_value, which the leaf's create does not
\* take: LeafNode::new reads T::background() itself.)
LeafCreate(log2, key, level) ==
    LeafNew(level, Bounds3iNew(key, Vec3iAdd(key, LeafCalculateDimensions(log2))))

\* Whether the sum in <LeafNode as ChildNodeTrait>::create(key, level) panics
LeafCreatePanics(log2, key) == Vec3iAddPanics(key, LeafCalculateDimensions(log2))

LeafCoordToIndex(leaf, log2, coord) ==
    IF ~Contains(leaf.bounds, coord) THEN None
    ELSE LET i == BitAnd(coord[1], Shl1(log2) - 1)
             j == BitAnd(coord[2], Shl1(log2) - 1)
             k == BitAnd(coord[3], Shl1(log2) - 1)
         IN  Some(i + j * Shl1(log2) + k * Shl1(log2) * Shl1(log2))

LeafIndexToCoord(leaf, log2, index) ==
    LET dimensions == LeafCalculateDimensions(log2)
        z == index \div (dimensions[2] * dimensions[1])
        y == (index % (dimensions[2] * dimensions[1])) \div dimensions[1]
        x == index % dimensions[1]
    IN  Vec3iAdd(Vec3iNew(x, y, z), leaf.origin)

LeafBounds(leaf) == leaf.bounds

LeafIsActive(leaf, log2, coord) ==
    With(LeafCoordToIndex(leaf, log2, coord), LAMBDA index :
        IF IsSome(index)
        THEN With(DataGet(leaf.data, Unwrap(index)), LAMBDA voxel :
                 IF IsSome(voxel) THEN IsActive(Unwrap(voxel)) ELSE FALSE)
        ELSE FALSE)

LeafActiveCount(leaf) == leaf.active_count

LeafTotalCount(leaf) == Cardinality(DOMAIN leaf.data)

\* LeafNode::get_voxel: Some(payload) of the slot, None on a miss
LeafGetVoxelOpt(leaf, log2, coord) ==
    With(LeafCoordToIndex(leaf, log2, coord), LAMBDA index :
        IF IsSome(index) THEN DataGet(leaf.data, Unwrap(index)) ELSE None)

\* The leaf's get_voxel as its parent uses it (NodeTrait::get_voxel returns
\* &T): the stored payload if present, else the leaf's background, which
\* is what a None slot stands for (the comment of LeafNode::data).
LeafGetVoxel(leaf, log2, coord) ==
    With(LeafGetVoxelOpt(leaf, log2, coord), LAMBDA voxel :
        IF IsSome(voxel) THEN Unwrap(voxel) ELSE leaf.background_value)

\* LeafSetVoxel with the background test of the parent nodes: a write of
\* the background is left out
LeafSetVoxelMutantElide(leaf, log2, coord, value) ==
    With(LeafCoordToIndex(leaf, log2, coord), LAMBDA index :
        IF IsSome(index) /\ value # leaf.background_value
        THEN With(DataGet(leaf.data, Unwrap(index)), LAMBDA old_value :
                 LET was_active == IF IsSome(old_value) THEN IsActive(Unwrap(old_value))
                                   ELSE FALSE
                     count      == IF ~was_active /\ IsActive(value)
                                   THEN leaf.active_count + 1
                                   ELSE leaf.active_count
                 IN  [node |-> [leaf EXCEPT
                                   !.data = DataPut(leaf.data, Unwrap(index), value),
                                   !.active_count = count],
                      ret  |-> old_value])
        ELSE [node |-> leaf, ret |-> None])

\* LeafNode::set_voxel: the node after the call and the value returned
LeafSetVoxel(leaf, log2, coord, value) ==
    With(LeafCoordToIndex(leaf, log2, coord), LAMBDA index :
        IF IsSome(index)
        THEN With(DataGet(leaf.data, Unwrap(index)), LAMBDA old_value :
                 LET was_active == IF IsSome(old_value) THEN IsActive(Unwrap(old_value))
                                   ELSE FALSE
                     is_active  == IsActive(value)
                     count      == IF was_active /\ ~is_active
                                   THEN MaxI(leaf.active_count - 1, 0)
                                   ELSE IF ~was_active /\ is_active
                                   THEN leaf.active_count + 1
                                   ELSE leaf.active_count
                 IN  [node |-> [leaf EXCEPT
                                   !.data = DataPut(leaf.data, Unwrap(index), value),
                                   !.active_count = count],
                      ret  |-> old_value])
        ELSE [node |-> leaf, ret |-> None])

\* LeafNode::remove_voxel
\* LeafNode::remove_voxel answering the background value on a miss
LeafRemoveVoxelMutantMiss(leaf, log2, coord) ==
    With(LeafCoordToIndex(leaf, log2, coord), LAMBDA index :
        IF IsSome(index) /\ IsSome(DataGet(leaf.data, Unwrap(index)))
        THEN With(leaf.data[Unwrap(index)], LAMBDA value :
                 LET count == IF IsActive(value) THEN MaxI(leaf.active_count - 1, 0)
                              ELSE leaf.active_count
                 IN  [node |-> [leaf EXCEPT
                                   !.data = DataTake(leaf.data, Unwrap(index)),
                                   !.active_count = count],
                      ret  |-> Some(value)])
        ELSE [node |-> leaf, ret |-> Some(leaf.background_value)])

LeafRemoveVoxel(leaf, log2, coord) ==
    With(LeafCoordToIndex(leaf, log2, coord), LAMBDA index :
        IF IsSome(index) /\ IsSome(DataGet(leaf.data, Unwrap(index)))
        THEN With(leaf.data[Unwrap(index)], LAMBDA value :
                 LET count == IF IsActive(value) THEN MaxI(leaf.active_count - 1, 0)
                              ELSE leaf.active_count
                 IN  [node |-> [leaf EXCEPT
                                   !.data = DataTake(leaf.data, Unwrap(index)),
                                   !.active_count = count],
                      ret  |-> Some(value)])
        ELSE [node |-> leaf, ret |-> None])

\* LeafNode::clear without the reset of the counter
LeafClearMutantKeepCount(leaf) == [leaf EXCEPT !.data = EmptyData]

\* LeafNode::clear: every slot None, the counter 0
LeafClear(leaf) == [leaf EXCEPT !.data = EmptyData, !.active_count = 0]

\* LeafNode::optimize: inactive payloads are dropped, then the counter is
\* the number of Some slots
LeafOptimize(leaf) ==
    With([i \in {j \in DOMAIN leaf.data : IsActive(leaf.data[j])} |-> leaf.data[i]],
         LAMBDA data :
             [leaf EXCEPT !.data = data, !.active_count = Cardinality(DOMAIN data)])

RECURSIVE SeqOfSet(_)
\* The members of a finite set in the order an iteration visits them
SeqOfSet(S) ==
    IF S = {} THEN <<>>
    ELSE LET m == CHOOSE a \in S : \A b \in S : a <= b
         IN  <<m>> \o SeqOfSet(S \ {m})

\* LeafNode::all_voxels: (coord, payload) of every Some slot, by index
LeafAllVoxels(leaf, log2) ==
    With(SeqOfSet(DOMAIN leaf.data), LAMBDA idx :
        [n \in 1 .. Len(idx) |->
            <<LeafIndexToCoord(leaf, log2, idx[n]), leaf.data[idx[n]]>>])

\* LeafNode::active_voxels without its filter
LeafActiveVoxelsMutantAll(leaf, log2) == LeafAllVoxels(leaf, log2)

\* LeafNode::active_voxels
LeafActiveVoxels(leaf, log2) ==
    SelectSeq(LeafAllVoxels(leaf, log2), LAMBDA item : IsActive(item[2]))

\* NodeDiagnostics::child_count of a leaf
LeafChildCount(leaf) == leaf.active_count

(***************************************************************************)
(* internal_node.rs: InternalNode<T, LeafNode<T, _>, LOG2>.  Both shapes   *)
(* with an internal level have leaves as the internal node's children.     *)
(***************************************************************************)
InternalFromLevelAndCoord(shape, level, coord, background_value) ==
    [background_value |-> background_value,
     data             |-> EmptyData,
     origin           |-> Key(coord, InternalLog2Cum(shape)),
     level            |-> level]

\* <InternalNode as ChildNodeTrait>::create
InternalCreate(shape, coord, level, background_value) ==
    InternalFromLevelAndCoord(shape, level, coord, background_value)

InternalCalculateDimensions(shape) ==
    LET per_axis == Shl1(InternalLog2Cum(shape))
    IN  Vec3iNew(per_axis, per_axis, per_axis)

InternalDataDimensions(shape) ==
    Vec3iNew(Shl1(InternalLog2(shape)), Shl1(InternalLog2(shape)),
             Shl1(InternalLog2(shape)))

InternalBounds(node, shape) ==
    Bounds3iNew(node.origin, Vec3iAdd(node.origin, InternalCalculateDimensions(shape)))

\* Whether the sum in InternalNode::bounds panics
InternalBoundsPanics(node, shape) ==
    Vec3iAddPanics(node.origin, InternalCalculateDimensions(shape))

InternalContainsCoord(node, shape, coord) == Contains(InternalBounds(node, shape), coord)

\* InternalNode::coord_to_index with the strides of the node's cumulative
\* LOG2 in place of those of its own LOG2
InternalCoordToIndexMutantStride(node, shape, coord) ==
    IF ~InternalContainsCoord(node, shape, coord) THEN None
    ELSE LET log2       == InternalLog2Cum(shape)
             child_log2 == LeafLog2Cum(shape)
             i1 == BitAnd(coord[1], Shl1(log2) - 1)
             j1 == BitAnd(coord[2], Shl1(log2) - 1)
             k1 == BitAnd(coord[3], Shl1(log2) - 1)
             i2 == BitAnd(i1, BitNot(Shl1(child_log2) - 1))
             j2 == BitAnd(j1, BitNot(Shl1(child_log2) - 1))
             k2 == BitAnd(k1, BitNot(Shl1(child_log2) - 1))
             i  == i2 \div Shl1(child_log2)
             j  == j2 \div Shl1(child_log2)
             k  == k2 \div Shl1(child_log2)
         IN  Some(i + j * Shl1(log2) + k * Shl1(log2) * Shl1(log2))

InternalCoordToIndex(node, shape, coord) ==
    IF ~InternalContainsCoord(node, shape, coord) THEN None
    ELSE LET log2       == InternalLog2Cum(shape)
             child_log2 == LeafLog2Cum(shape)
             LOG2       == InternalLog2(shape)
             i1 == BitAnd(coord[1], Shl1(log2) - 1)
             j1 == BitAnd(coord[2], Shl1(log2) - 1)
             k1 == BitAnd(coord[3], Shl1(log2) - 1)
             i2 == BitAnd(i1, BitNot(Shl1(child_log2) - 1))
             j2 == BitAnd(j1, BitNot(Shl1(child_log2) - 1))
             k2 == BitAnd(k1, BitNot(Shl1(child_log2) - 1))
             i  == i2 \div Shl1(child_log2)
             j  == j2 \div Shl1(child_log2)
             k  == k2 \div Shl1(child_log2)
         IN  Some(i + j * Shl1(LOG2) + k * Shl1(LOG2) * Shl1(LOG2))

InternalIndexToCoord(node, shape, index) ==
    LET dimensions == InternalDataDimensions(shape)
        z == index \div (dimensions[2] * dimensions[1])
        y == (index % (dimensions[2] * dimensions[1])) \div dimensions[1]
        x == index % dimensions[1]
        child_log2 == LeafLog2Cum(shape)
    IN  Vec3iAdd(Vec3iNew(x * Shl1(child_log2), y * Shl1(child_log2),
                          z * Shl1(child_log2)),
                 node.origin)

\* InternalNode::find_child / find_child_mut
InternalFindChild(node, shape, coord) ==
    With(InternalCoordToIndex(node, shape, coord), LAMBDA index :
        IF IsSome(index) THEN DataGet(node.data, Unwrap(index)) ELSE None)

\* InternalNode::create_child: the node with the new child in its slot, or a
\* panic when `expect` meets a coordinate outside the node's bounds or a
\* checked sum overflows.  The child is created from the written coordinate.
InternalCreateChild(node, shape, coord) ==
    With(InternalCoordToIndex(node, shape, coord), LAMBDA index :
        IF IsSome(index)
        THEN [node  |-> [node EXCEPT !.data =
                            DataPut(node.data, Unwrap(index),
                                    LeafCreate(LeafLog2(shape), coord, node.level + 1))],
              index |-> Unwrap(index),
              panic |-> \/ InternalBoundsPanics(node, shape)
                        \/ LeafCreatePanics(LeafLog2(shape), coord)]
        ELSE [node |-> node, index |-> 0, panic |-> TRUE])

InternalIsActive(node, shape, coord) ==
    With(InternalFindChild(node, shape, coord), LAMBDA child :
        IF IsSome(child) THEN LeafIsActive(Unwrap(child), LeafLog2(shape), coord)
        ELSE FALSE)

RECURSIVE SumOver(_, _)
\* The sum of f[i] over the indices i of S
SumOver(f, S) ==
    IF S = {} THEN 0
    ELSE LET i == CHOOSE a \in S : TRUE IN f[i] + SumOver(f, S \ {i})

InternalActiveCount(node) ==
    SumOver([i \in DOMAIN node.data |-> LeafActiveCount(node.data[i])], DOMAIN node.data)

InternalTotalCount(node) ==
    SumOver([i \in DOMAIN node.data |-> LeafTotalCount(node.data[i])], DOMAIN node.data)

InternalGetVoxel(node, shape, coord) ==
    With(InternalFindChild(node, shape, coord), LAMBDA child :
        IF IsSome(child) THEN LeafGetVoxel(Unwrap(child), LeafLog2(shape), coord)
        ELSE node.background_value)

\* InternalNode::set_voxel: the node after the call, the value returned, and
\* whether the call panicked
InternalSetVoxel(node, shape, coord, value) ==
    With(InternalFindChild(node, shape, coord), LAMBDA child :
        IF IsSome(child)
        THEN With(LeafSetVoxel(Unwrap(child), LeafLog2(shape), coord, value), LAMBDA r :
                 [node  |-> [node EXCEPT !.data =
                                DataPut(node.data,
                                        Unwrap(InternalCoordToIndex(node, shape, coord)),
                                        r.node)],
                  ret   |-> r.ret,
                  panic |-> InternalBoundsPanics(node, shape)])
        ELSE IF node.background_value # value
        THEN With(InternalCreateChild(node, shape, coord), LAMBDA c :
                 IF c.panic THEN [node |-> node, ret |-> None, panic |-> TRUE]
                 ELSE With(LeafSetVoxel(c.node.data[c.index], LeafLog2(shape),
                                        coord, value), LAMBDA r :
                          [node  |-> [c.node EXCEPT !.data =
                                         DataPut(c.node.data, c.index, r.node)],
                           ret   |-> r.ret,
                           panic |-> FALSE]))
        ELSE [node |-> node, ret |-> None, panic |-> InternalBoundsPanics(node, shape)])

InternalRemoveVoxel(node, shape, coord) ==
    With(InternalFindChild(node, shape, coord), LAMBDA child :
        IF IsSome(child)
        THEN With(LeafRemoveVoxel(Unwrap(child), LeafLog2(shape), coord), LAMBDA r :
                 [node |-> [node EXCEPT !.data =
                               DataPut(node.data,
                                       Unwrap(InternalCoordToIndex(node, shape, coord)),
                                       r.node)],
                  ret  |-> r.ret])
        ELSE [node |-> node, ret |-> None])

RECURSIVE FlatMap(_, _)
\* The concatenation of f[i] over the indices of the sequence idx
FlatMap(f, idx) ==
    IF idx = <<>> THEN <<>> ELSE f[Head(idx)] \o FlatMap(f, Tail(idx))

InternalActiveVoxels(node, shape) ==
    FlatMap([i \in DOMAIN node.data |-> LeafActiveVoxels(node.data[i], LeafLog2(shape))],
            SeqOfSet(DOMAIN node.data))

InternalAllVoxels(node, shape) ==
    FlatMap([i \in DOMAIN node.data |-> LeafAllVoxels(node.data[i], LeafLog2(shape))],
            SeqOfSet(DOMAIN node.data))

\* NodeDiagnostics::child_count of an internal node
InternalChildCount(node) == Cardinality(DOMAIN node.data)

(***************************************************************************)
(* root_node.rs: RootNode<T, N>.  N is LeafNode for the Default shape and  *)
(* InternalNode for the two others; the Child* operators are the calls     *)
(* through N.                                                              *)
(***************************************************************************)
\* N::key
ChildKey(shape, coord) == Key(coord, RootLog2Cum(shape))

\* N::create(coord, level, background_value)
ChildCreate(shape, coord, level, background_value) ==
    IF HasInternal(shape) THEN InternalCreate(shape, coord, level, background_value)
    ELSE LeafCreate(LeafLog2(shape), coord, level)

\* Whether N::create(coord, level, background_value) panics
ChildCreatePanics(shape, coord) ==
    IF HasInternal(shape) THEN FALSE ELSE LeafCreatePanics(LeafLog2(shape), coord)

ChildBounds(shape, child) ==
    IF HasInternal(shape) THEN InternalBounds(child, shape) ELSE LeafBounds(child)

ChildActiveCount(shape, child) ==
    IF HasInternal(shape) THEN InternalActiveCount(child) ELSE LeafActiveCount(child)

ChildTotalCount(shape, child) ==
    IF HasInternal(shape) THEN InternalTotalCount(child) ELSE LeafTotalCount(child)

ChildGetVoxel(shape, child, coord) ==
    IF HasInternal(shape) THEN InternalGetVoxel(child, shape, coord)
    ELSE LeafGetVoxel(child, LeafLog2(shape), coord)

ChildSetVoxel(shape, child, coord, value) ==
    IF HasInternal(shape) THEN InternalSetVoxel(child, shape, coord, value)
    ELSE With(LeafSetVoxel(child, LeafLog2(shape), coord, value), LAMBDA r :
             [node |-> r.node, ret |-> r.ret, panic |-> FALSE])

ChildRemoveVoxel(shape, child, coord) ==
    IF HasInternal(shape) THEN InternalRemoveVoxel(child, shape, coord)
    ELSE LeafRemoveVoxel(child, LeafLog2(shape), coord)

ChildActiveVoxels(shape, child) ==
    IF HasInternal(shape) THEN InternalActiveVoxels(child, shape)
    ELSE LeafActiveVoxels(child, LeafLog2(shape))

ChildAllVoxels(shape, child) ==
    IF HasInternal(shape) THEN InternalAllVoxels(child, shape)
    ELSE LeafAllVoxels(child, LeafLog2(shape))

\* RootNode::default: the empty root, or a panic on an active background
\* The payload type i32 as RootNode<T, N> sees a payload type T: the value
\* of T::background() and the values whose is_active() is true
I32Payload == [background |-> Background, active |-> {v \in Values : IsActive(v)}]

\* RootNode::default without the test of the background value
RootDefaultOfMutantNoCheck(T) ==
    [node  |-> [level |-> 0, background_value |-> T.background, children |-> EmptyData],
     panic |-> FALSE]

\* RootNode::<T, N>::default()
RootDefaultOf(T) ==
    [node  |-> [level |-> 0, background_value |-> T.background, children |-> EmptyData],
     panic |-> T.background \in T.active]

RootDefault == RootDefaultOf(I32Payload)

\* RootNode::find_child / find_child_mut
RootFindChild(root, shape, coord) == DataGet(root.children, ChildKey(shape, coord))

\* RootNode::create_child: the child is created from the written coordinate
\* and inserted under its key.
RootCreateChild(root, shape, coord) ==
    LET child_key == ChildKey(shape, coord)
        child     == ChildCreate(shape, coord, root.level + 1, root.background_value)
    IN  [root EXCEPT !.children = DataPut(root.children, child_key, child)]

RECURSIVE FoldBoundsMutantFirst(_, _, _, _)
\* The fold of RootNode::bounds keeping the bounds of the first child
FoldBoundsMutantFirst(shape, children, keys, acc) ==
    IF keys = {} THEN acc
    ELSE LET k      == CHOOSE a \in keys : TRUE
             bounds == ChildBounds(shape, children[k])
         IN  FoldBoundsMutantFirst(shape, children, keys \ {k},
                                   IF acc = Bounds3iEmpty THEN bounds ELSE acc)

RECURSIVE FoldBounds(_, _, _, _)
\* The fold of RootNode::bounds over the children not yet visited
FoldBounds(shape, children, keys, acc) ==
    IF keys = {} THEN acc
    ELSE LET k      == CHOOSE a \in keys : TRUE
             bounds == ChildBounds(shape, children[k])
         IN  FoldBounds(shape, children, keys \ {k},
                        IF acc = Bounds3iEmpty THEN bounds ELSE ExpandBounds(acc, bounds))

\* RootNode::bounds answering a zero-sized box at the origin for a root
\* without children
RootBoundsMutantZeroBox(root, shape) ==
    IF DOMAIN root.children = {} THEN Bounds3iNew(<<0, 0, 0>>, <<0, 0, 0>>)
    ELSE FoldBounds(shape, root.children, DOMAIN root.children, Bounds3iEmpty)

RootBounds(root, shape) ==
    IF DOMAIN root.children = {} THEN Bounds3iEmpty
    ELSE FoldBounds(shape, root.children, DOMAIN root.children, Bounds3iEmpty)

RootActiveCount(root, shape) ==
    SumOver([k \in DOMAIN root.children |-> ChildActiveCount(shape, root.children[k])],
            DOMAIN root.children)

RootTotalCount(root, shape) ==
    SumOver([k \in DOMAIN root.children |-> ChildTotalCount(shape, root.children[k])],
            DOMAIN root.children)

RootGetVoxel(root, shape, coord) ==
    With(RootFindChild(root, shape, coord), LAMBDA child :
        IF IsSome(child) THEN ChildGetVoxel(shape, Unwrap(child), coord)
        ELSE root.background_value)

RootIsActive(root, shape, coord) == IsActive(RootGetVoxel(root, shape, coord))

\* RootSetVoxel without the background test: a child is created on any miss
RootSetVoxelAlwaysCreate(root, shape, coord, value) ==
    With(ChildKey(shape, coord), LAMBDA child_key :
    With(IF IsSome(RootFindChild(root, shape, coord)) THEN root
         ELSE RootCreateChild(root, shape, coord), LAMBDA base :
    With(ChildSetVoxel(shape, base.children[child_key], coord, value), LAMBDA r :
        [node  |-> [base EXCEPT !.children = DataPut(base.children, child_key, r.node)],
         ret   |-> r.ret,
         panic |-> r.panic \/ (~IsSome(RootFindChild(root, shape, coord))
                                /\ ChildCreatePanics(shape, coord))])))

\* RootNode::set_voxel: the root after the call, the value returned, and
\* whether the call panicked
RootSetVoxel(root, shape, coord, value) ==
    With(ChildKey(shape, coord), LAMBDA child_key :
    With(RootFindChild(root, shape, coord), LAMBDA child :
        IF IsSome(child)
        THEN With(ChildSetVoxel(shape, Unwrap(child), coord, value), LAMBDA r :
                 [node  |-> [root EXCEPT !.children =
                                DataPut(root.children, child_key, r.node)],
                  ret   |-> r.ret,
                  panic |-> r.panic])
        ELSE IF root.background_value # value
        THEN With(RootCreateChild(root, shape, coord), LAMBDA created :
             With(ChildSetVoxel(shape, created.children[child_key], coord, value),
                  LAMBDA r :
                 [node  |-> [created EXCEPT !.children =
                                DataPut(created.children, child_key, r.node)],
                  ret   |-> r.ret,
                  panic |-> r.panic \/ ChildCreatePanics(shape, coord)]))
        ELSE [node |-> root, ret |-> None, panic |-> FALSE]))

\* RootNode::remove_voxel dropping a child that the removal has emptied
RootRemoveVoxelMutantPrune(root, shape, coord) ==
    With(RootFindChild(root, shape, coord), LAMBDA child :
        IF IsSome(child)
        THEN With(ChildRemoveVoxel(shape, Unwrap(child), coord), LAMBDA r :
                 [node |-> [root EXCEPT !.children =
                               IF ChildTotalCount(shape, r.node) = 0
                               THEN DataTake(root.children, ChildKey(shape, coord))
                               ELSE DataPut(root.children, ChildKey(shape, coord), r.node)],
                  ret  |-> r.ret])
        ELSE [node |-> root, ret |-> None])

RootRemoveVoxel(root, shape, coord) ==
    With(RootFindChild(root, shape, coord), LAMBDA child :
        IF IsSome(child)
        THEN With(ChildRemoveVoxel(shape, Unwrap(child), coord), LAMBDA r :
                 [node |-> [root EXCEPT !.children =
                               DataPut(root.children, ChildKey(shape, coord), r.node)],
                  ret  |-> r.ret])
        ELSE [node |-> root, ret |-> None])

RECURSIVE FlatMapSet(_, _)
\* The concatenation of f[k] over the keys of S, in the map's iteration order
FlatMapSet(f, S) ==
    IF S = {} THEN <<>>
    ELSE LET k == CHOOSE a \in S : TRUE IN f[k] \o FlatMapSet(f, S \ {k})

RootActiveVoxels(root, shape) ==
    FlatMapSet([k \in DOMAIN root.children |-> ChildActiveVoxels(shape, root.children[k])],
               DOMAIN root.children)

RootAllVoxels(root, shape) ==
    FlatMapSet([k \in DOMAIN root.children |-> ChildAllVoxels(shape, root.children[k])],
               DOMAIN root.children)

\* NodeDiagnostics::child_count of the root
RootChildCount(root) == Cardinality(DOMAIN root.children)

(***************************************************************************)
(* voxel.rs: VoxelVolume<T>.  A world coordinate is a multiple of          *)
(* 1/WorldUnit held as an integer number of such units, and so is          *)
(* leaf_voxel_size.                                                        *)
(***************************************************************************)
\* f32 `as i32` of the quotient n / d: truncation toward zero
TruncDiv(n, d) == IF n >= 0 THEN n \div d ELSE -((-n) \div d)

\* VoxelVolume::with_config: the volume, or a panic from RootNode::default
WithConfig(config) ==
    [volume |-> [root |-> RootDefault.node, config |-> config],
     panic  |-> RootDefault.panic]

\* VoxelVolume::<T>::with_config(config): each arm of the match builds the
\* root of its shape with RootNode::default
WithConfigOf(T, config) ==
    [volume |-> [root |-> RootDefaultOf(T).node, config |-> config],
     panic  |-> RootDefaultOf(T).panic]

ShapeOf(vol) == vol.config.volume_config_type

\* coord.scale(1.0 / leaf_voxel_size).as_vec3i()
CvCoord(vol, coord) ==
    LET leaf_voxel_size == vol.config.leaf_voxel_size
    IN  <<TruncDiv(coord[1], leaf_voxel_size),
          TruncDiv(coord[2], leaf_voxel_size),
          TruncDiv(coord[3], leaf_voxel_size)>>

VolGetVoxel(vol, coord) == RootGetVoxel(vol.root, ShapeOf(vol), coord)

VolSetVoxel(vol, coord, value) ==
    With(RootSetVoxel(vol.root, ShapeOf(vol), coord, value), LAMBDA r :
        [volume |-> [vol EXCEPT !.root = r.node], ret |-> r.ret, panic |-> r.panic])

VolRemoveVoxel(vol, coord) ==
    With(RootRemoveVoxel(vol.root, ShapeOf(vol), coord), LAMBDA r :
        [volume |-> [vol EXCEPT !.root = r.node], ret |-> r.ret])

VolIsActive(vol, coord) == RootIsActive(vol.root, ShapeOf(vol), coord)

VolActiveCount(vol) == RootActiveCount(vol.root, ShapeOf(vol))

VolTotalCount(vol) == RootTotalCount(vol.root, ShapeOf(vol))

VolBounds(vol) == RootBounds(vol.root, ShapeOf(vol))

\* the tree's active-voxel iterator, as the mesher walks it
VolActiveVoxels(vol) == RootActiveVoxels(vol.root, ShapeOf(vol))

VolAllVoxels(vol) == RootAllVoxels(vol.root, ShapeOf(vol))

WorldToVoxelCoord(vol, world_coord) == CvCoord(vol, world_coord)

\* VoxelVolume::get_leaf_voxel_size
GetLeafVoxelSize(vol) == vol.config.leaf_voxel_size

\* VoxelVolume::get_root_voxel_size: 2.0_f32.powi(log2_cum) * leaf_voxel_size
GetRootVoxelSize(vol) ==
    (2 ^ RootLog2Cum(ShapeOf(vol))) * vol.config.leaf_voxel_size

\* The integers up to this magnitude are all values of f32 (2^24)
F32Exact == 16777216

RECURSIVE F32Spacing(_, _)
\* The distance between two consecutive f32 values around a >= 2^24: the
\* least power of two q >= 2 with a < 2^24 * q
F32Spacing(a, q) == IF a \div q < F32Exact THEN q ELSE F32Spacing(a, 2 * q)

\* n as f32 for an i32 n: the nearest value of 24 significant bits, ties to
\* the even one (of magnitude below 2^30 here)
F32OfI32(n) ==
    IF n >= -F32Exact /\ n <= F32Exact THEN n
    ELSE LET a  == IF n < 0 THEN -n ELSE n
             q  == F32Spacing(a, 2)
             lo == (a \div q) * q
             up == \/ 2 * (a - lo) > q
                   \/ 2 * (a - lo) = q /\ (a \div q) % 2 = 1
             m  == IF up THEN lo + q ELSE lo
         IN  IF n < 0 THEN -m ELSE m

\* Vec3i::as_vec3f
AsVec3f(v) == <<F32OfI32(v[1]), F32OfI32(v[2]), F32OfI32(v[3])>>

\* voxel_coord.as_vec3f().scale(leaf_voxel_size)
VoxelToWorldCoord(vol, voxel_coord) ==
    LET leaf_voxel_size == vol.config.leaf_voxel_size
    IN  <<AsVec3f(voxel_coord)[1] * leaf_voxel_size,
          AsVec3f(voxel_coord)[2] * leaf_voxel_size,
          AsVec3f(voxel_coord)[3] * leaf_voxel_size>>

(***************************************************************************)
(* voxel.rs: VoxelCoordIterator                                            *)
(***************************************************************************)
VoxelCoordIteratorNew(min, max) ==
    [min |-> min, max |-> max, current |-> min, finished |-> FALSE]

\* Iterator::next on an iterator that is not finished: the item and the
\* iterator after the call
VoxelCoordIteratorNext(it) ==
    LET x1 == it.current[1] + 1
        wrapx == x1 >= it.max[1]
        y1 == IF wrapx THEN it.current[2] + 1 ELSE it.current[2]
        wrapy == wrapx /\ y1 >= it.max[2]
        z1 == IF wrapy THEN it.current[3] + 1 ELSE it.current[3]
        wrapz == wrapy /\ z1 >= it.max[3]
    IN  [item |-> it.current,
         it   |-> [it EXCEPT !.current = <<IF wrapx THEN it.min[1] ELSE x1,
                                           IF wrapy THEN it.min[2] ELSE y1,
                                           z1>>,
                             !.finished = wrapz]]

RECURSIVE VoxelCoordIteratorCollect(_)
\* Every item of the iterator, in order, until next returns None
VoxelCoordIteratorCollect(it) ==
    IF it.finished THEN <<>>
    ELSE LET n == VoxelCoordIteratorNext(it)
         IN  <<n.item>> \o VoxelCoordIteratorCollect(n.it)

(***************************************************************************)
(* voxel.rs: VoxelVolume::fill_bounds.  A generator is one of the pure     *)
(* functions of the world coordinate named in Generators.                  *)
(***************************************************************************)
Generators == {"skip", "solid", "halfspace"}

\* generator(world_coord)
GenApply(gen, world_coord) ==
    CASE gen = "solid"     -> Some(1)
      [] gen = "halfspace" -> IF world_coord[1] >= 0 THEN Some(2) ELSE None
      [] gen = "corner"    -> IF world_coord = <<0, 0, 0>> THEN Some(1) ELSE Some(2)
      [] gen = "layer"     -> IF world_coord[3] <= 0 THEN Some(1) ELSE Some(2)
      [] gen = "strip"     -> IF world_coord[1] <= 0 /\ world_coord[3] <= 0
                              THEN Some(1) ELSE Some(2)
      [] OTHER             -> None

RECURSIVE FillLoopMutantCountAll(_, _, _, _, _, _)
\* FillLoop with count += 1 outside the `if let`: every coordinate counts
FillLoopMutantCountAll(vol, coords, gen, count, calls, sets) ==
    IF coords = <<>>
    THEN [volume |-> vol, count |-> count, calls |-> calls, sets |-> sets,
          panic |-> FALSE]
    ELSE With(GenApply(gen, VoxelToWorldCoord(vol, Head(coords))), LAMBDA value :
             IF IsSome(value)
             THEN With(VolSetVoxel(vol, Head(coords), Unwrap(value)), LAMBDA r :
                      FillLoopMutantCountAll(r.volume, Tail(coords), gen, count + 1,
                                             Append(calls, Head(coords)),
                                             Append(sets, <<Head(coords), Unwrap(value)>>)))
             ELSE FillLoopMutantCountAll(vol, Tail(coords), gen, count + 1,
                                         Append(calls, Head(coords)), sets))

RECURSIVE FillLoop(_, _, _, _, _, _)
\* The body of the for loop of fill_bounds over the coordinates left: calls
\* is the sequence of voxel coordinates whose world coordinate the generator
\* has been given, sets the sequence of set_voxel calls made
FillLoop(vol, coords, gen, count, calls, sets) ==
    IF coords = <<>>
    THEN [volume |-> vol, count |-> count, calls |-> calls, sets |-> sets,
          panic |-> FALSE]
    ELSE With(GenApply(gen, VoxelToWorldCoord(vol, Head(coords))), LAMBDA value :
             IF IsSome(value)
             THEN With(VolSetVoxel(vol, Head(coords), Unwrap(value)), LAMBDA r :
                      IF r.panic
                      THEN [volume |-> vol, count |-> count,
                            calls |-> Append(calls, Head(coords)),
                            sets  |-> Append(sets, <<Head(coords), Unwrap(value)>>),
                            panic |-> TRUE]
                      ELSE FillLoop(r.volume, Tail(coords), gen, count + 1,
                                    Append(calls, Head(coords)),
                                    Append(sets, <<Head(coords), Unwrap(value)>>)))
             ELSE FillLoop(vol, Tail(coords), gen, count,
                           Append(calls, Head(coords)), sets))

\* The items of the VoxelCoordIterator that fill_bounds loops over
FillCoords(vol, min, max) ==
    VoxelCoordIteratorCollect(
        VoxelCoordIteratorNew(WorldToVoxelCoord(vol, min), WorldToVoxelCoord(vol, max)))

FillBounds(vol, min, max, gen) ==
    FillLoop(vol, FillCoords(vol, min, max), gen, 0, <<>>, <<>>)

(***************************************************************************)
(* The f32 values of the mesher.  A finite value is a multiple of 1/SdUnit *)
(* held as an integer number of such units; a position is a world          *)
(* coordinate held as a fraction of world units, num / den per component.  *)
(***************************************************************************)
F32(n) == [kind |-> "finite", num |-> n]

F32NaN == [kind |-> "nan", num |-> 0]

F32Inf == [kind |-> "inf", num |-> 0]

\* f32::is_finite
IsFinite(f) == f.kind = "finite"

\* value < iso_level for a finite value
LessThanIso(value, iso_level) ==
    CASE iso_level.kind = "finite" -> value < iso_level.num
      [] iso_level.kind = "inf"    -> TRUE
      [] OTHER                     -> FALSE

\* T::signed_distance() of the payload, in units of 1/SdUnit: the payload
\* is its own signed distance
SignedDistanceOf(value) == value * SdUnit

Vec3fZero == [num |-> <<0, 0, 0>>, den |-> 1]

(***************************************************************************)
(* mesh_generation/marching_cubes: the tables.  Corner i and edge e of the *)
(* code are entries i + 1 and e + 1 of the sequences.                      *)
(***************************************************************************)
CORNER_OFFSETS ==
    << <<0, 0, 0>>, <<1, 0, 0>>, <<1, 1, 0>>, <<0, 1, 0>>,
       <<0, 0, 1>>, <<1, 0, 1>>, <<1, 1, 1>>, <<0, 1, 1>> >>

EDGE_VERTEX_INDICES ==
    << <<0, 1>>, <<1, 2>>, <<2, 3>>, <<3, 0>>,
       <<4, 5>>, <<5, 6>>, <<6, 7>>, <<7, 4>>,
       <<0, 4>>, <<1, 5>>, <<2, 6>>, <<3, 7>> >>

\* Whether bit n of the mask is set
BitSet(mask, n) == (mask \div Shl1(n)) % 2 = 1

RECURSIVE EdgeMaskFrom(_, _)
\* The bits of the edges e .. 11 of EDGE_MASKS[cube_index]: an edge is in
\* the mask when the cube index classifies its two corners differently
EdgeMaskFrom(cube_index, e) ==
    IF e > 11 THEN 0
    ELSE (IF BitSet(cube_index, EDGE_VERTEX_INDICES[e + 1][1])
             # BitSet(cube_index, EDGE_VERTEX_INDICES[e + 1][2])
          THEN Shl1(e) ELSE 0) + EdgeMaskFrom(cube_index, e + 1)

\* EDGE_MASKS[cube_index]
EDGE_MASKS(cube_index) == EdgeMaskFrom(cube_index, 0)

\* The rows of TRIANGLE_TABLE before their first -1, for the cube indices
\* whose inside corners lie on the bottom face of the cube, and for the
\* last four rows
TriangleRows ==
    [i \in (0 .. 15) \cup (252 .. 255) |->
        CASE i = 1   -> <<0, 8, 3>>
          [] i = 2   -> <<0, 1, 9>>
          [] i = 3   -> <<1, 8, 3, 9, 8, 1>>
          [] i = 4   -> <<1, 2, 10>>
          [] i = 5   -> <<0, 8, 3, 1, 2, 10>>
          [] i = 6   -> <<9, 2, 10, 0, 2, 9>>
          [] i = 7   -> <<2, 8, 3, 2, 10, 8, 10, 9, 8>>
          [] i = 8   -> <<3, 11, 2>>
          [] i = 9   -> <<0, 11, 2, 8, 11, 0>>
          [] i = 10  -> <<1, 9, 0, 2, 3, 11>>
          [] i = 11  -> <<1, 11, 2, 1, 9, 11, 9, 8, 11>>
          [] i = 12  -> <<3, 10, 1, 11, 10, 3>>
          [] i = 13  -> <<0, 10, 1, 0, 8, 10, 8, 11, 10>>
          [] i = 14  -> <<3, 9, 0, 3, 11, 9, 11, 10, 9>>
          [] i = 15  -> <<9, 8, 10, 10, 8, 11>>
          [] i = 252 -> <<1, 3, 8, 9, 1, 8>>
          [] i = 253 -> <<0, 9, 1>>
          [] i = 254 -> <<0, 3, 8>>
          [] OTHER   -> <<>>]

\* TRIANGLE_TABLE[cube_index]: 16 entries, the row and then -1
TRIANGLE_TABLE(cube_index) ==
    [i \in 1 .. 16 |-> IF i <= Len(TriangleRows[cube_index])
                       THEN TriangleRows[cube_index][i] ELSE -1]

(***************************************************************************)
(* mesh_generation/mesh.rs: Mesh                                           *)
(***************************************************************************)
MeshNew == [vertices |-> <<>>, triangles |-> <<>>]

VertexCount(mesh) == Len(mesh.vertices)

TriangleCount(mesh) == Len(mesh.triangles)

\* Mesh::add_vertex answering the length after the push
AddVertexMutantLen(mesh, vertex) ==
    [mesh  |-> [mesh EXCEPT !.vertices = Append(mesh.vertices, vertex)],
     index |-> Len(mesh.vertices) + 1]

\* Mesh::add_vertex: the mesh after the push and the index returned
AddVertex(mesh, vertex) ==
    [mesh  |-> [mesh EXCEPT !.vertices = Append(mesh.vertices, vertex)],
     index |-> (Len(mesh.vertices) + 1) - 1]

AddTriangle(mesh, triangle) ==
    [mesh EXCEPT !.triangles = Append(mesh.triangles, triangle)]

(***************************************************************************)
(* mesh_generation/mesh.rs: the binary STL export.  A byte written is a    *)
(* record: of "u8" with its value, or byte k of the little-endian image    *)
(* of an f32.  An f32 written is num / den, divided by the square root of  *)
(* norm when norm is positive (a component of a normalized vector).        *)
(***************************************************************************)
Scalar(num, den, norm) == [num |-> num, den |-> den, norm |-> norm]

U8(n) == [of |-> "u8", val |-> Scalar(n, 1, 0), k |-> 0]

\* f32::to_le_bytes
F32LeBytes(x) == [k \in 1 .. 4 |-> [of |-> "f32", val |-> x, k |-> k - 1]]

\* (n as u32).to_le_bytes, for a length below 2^31
U32LeBytes(n) ==
    <<U8(n % 256), U8((n \div 256) % 256), U8((n \div 65536) % 256),
      U8((n \div 16777216) % 256)>>

\* b"yanvox_mesh_binary_export"
StlLabel ==
    <<121, 97, 110, 118, 111, 120, 95, 109, 101, 115, 104, 95, 98, 105, 110, 97, 114,
      121, 95, 101, 120, 112, 111, 114, 116>>

\* header_padded: the label copied over the start of [0u8; 80]
StlHeaderPadded ==
    [i \in 1 .. 80 |-> IF i <= MinI(Len(StlLabel), 80) THEN U8(StlLabel[i]) ELSE U8(0)]

\* impl Sub for Vec3f
Vec3fSub(a, b) ==
    [num |-> [i \in 1 .. 3 |-> a.num[i] * b.den - b.num[i] * a.den],
     den |-> a.den * b.den]

\* Vec3f::cross
Vec3fCross(a, b) ==
    [num |-> <<a.num[2] * b.num[3] - a.num[3] * b.num[2],
               a.num[3] * b.num[1] - a.num[1] * b.num[3],
               a.num[1] * b.num[2] - a.num[2] * b.num[1]>>,
     den |-> a.den * b.den]

\* Vec3f::normalize: the components over the length, or Vec3f::zero() for
\* a vector of length 0
Vec3fNormalize(v) ==
    With(v.num[1] * v.num[1] + v.num[2] * v.num[2] + v.num[3] * v.num[3], LAMBDA sq :
        IF sq > 0 THEN [i \in 1 .. 3 |-> Scalar(v.num[i], 1, sq)]
        ELSE [i \in 1 .. 3 |-> Scalar(0, 1, 0)])

\* The x, y, z of a vertex position as f32 values
Vec3fScalars(v) == [i \in 1 .. 3 |-> Scalar(v.num[i], v.den, 0)]

\* Mesh::calculate_triangle_normal
CalculateTriangleNormal(mesh, triangle) ==
    With(mesh.vertices[triangle.indices[1] + 1].position, LAMBDA v0 :
    With(mesh.vertices[triangle.indices[2] + 1].position, LAMBDA v1 :
    With(mesh.vertices[triangle.indices[3] + 1].position, LAMBDA v2 :
        Vec3fNormalize(Vec3fCross(Vec3fSub(v1, v0), Vec3fSub(v2, v0))))))

\* A writer: the bytes written so far and the room it has in all, None for
\* a writer that grows (Vec<u8>)
WriterNew(limit) == [bytes |-> <<>>, limit |-> limit]

\* Write::write_all: the writer after the call and whether it returned Ok;
\* a writer out of room takes the bytes that fit and returns Err
WriteAll(writer, data) ==
    IF writer.limit = None \/ Len(writer.bytes) + Len(data) <= Unwrap(writer.limit)
    THEN [writer |-> [writer EXCEPT !.bytes = writer.bytes \o data], ok |-> TRUE]
    ELSE [writer |-> [writer EXCEPT !.bytes =
                         writer.bytes
                         \o SubSeq(data, 1, Unwrap(writer.limit) - Len(writer.bytes))],
          ok     |-> FALSE]

RECURSIVE WriteEach(_, _)
\* The write_all(..)? calls of export_stl_binary in order, up to the first
\* that fails
WriteEach(writer, chunks) ==
    IF chunks = <<>> THEN [writer |-> writer, ok |-> TRUE]
    ELSE With(WriteAll(writer, Head(chunks)), LAMBDA r :
             IF ~r.ok THEN r ELSE WriteEach(r.writer, Tail(chunks)))

\* The writes of one triangle with an attribute of one byte
StlTriangleWritesMutantAttribute(mesh, triangle) ==
    With(CalculateTriangleNormal(mesh, triangle), LAMBDA normal :
    With(Vec3fScalars(mesh.vertices[triangle.indices[1] + 1].position), LAMBDA v0 :
    With(Vec3fScalars(mesh.vertices[triangle.indices[2] + 1].position), LAMBDA v1 :
    With(Vec3fScalars(mesh.vertices[triangle.indices[3] + 1].position), LAMBDA v2 :
        <<F32LeBytes(normal[1]), F32LeBytes(normal[2]), F32LeBytes(normal[3]),
          F32LeBytes(v0[1]), F32LeBytes(v0[2]), F32LeBytes(v0[3]),
          F32LeBytes(v1[1]), F32LeBytes(v1[2]), F32LeBytes(v1[3]),
          F32LeBytes(v2[1]), F32LeBytes(v2[2]), F32LeBytes(v2[3]),
          <<U8(0)>> >>))))

\* The writes of the body of the for loop of export_stl_binary for one
\* triangle: the normal, the three vertices, the attribute byte count
StlTriangleWrites(mesh, triangle) ==
    With(CalculateTriangleNormal(mesh, triangle), LAMBDA normal :
    With(Vec3fScalars(mesh.vertices[triangle.indices[1] + 1].position), LAMBDA v0 :
    With(Vec3fScalars(mesh.vertices[triangle.indices[2] + 1].position), LAMBDA v1 :
    With(Vec3fScalars(mesh.vertices[triangle.indices[3] + 1].position), LAMBDA v2 :
        <<F32LeBytes(normal[1]), F32LeBytes(normal[2]), F32LeBytes(normal[3]),
          F32LeBytes(v0[1]), F32LeBytes(v0[2]), F32LeBytes(v0[3]),
          F32LeBytes(v1[1]), F32LeBytes(v1[2]), F32LeBytes(v1[3]),
          F32LeBytes(v2[1]), F32LeBytes(v2[2]), F32LeBytes(v2[3]),
          <<U8(0), U8(0)>> >>))))

RECURSIVE StlWrites(_, _)
\* The writes of the for loop over the triangles from triangle n on
StlWrites(mesh, n) ==
    IF n > Len(mesh.triangles) THEN <<>>
    ELSE StlTriangleWrites(mesh, mesh.triangles[n]) \o StlWrites(mesh, n + 1)

\* Mesh::export_stl_binary(writer): the writer after the call and whether
\* the call returned Ok(())
ExportStlBinary(mesh, writer) ==
    WriteEach(writer,
              <<StlHeaderPadded, U32LeBytes(Len(mesh.triangles))>> \o StlWrites(mesh, 1))

(***************************************************************************)
(* mesh_generation/algorithm.rs: MarchingCubesAlgorithm                    *)
(***************************************************************************)
RECURSIVE GetCubeCornerValuesFrom(_, _, _, _)
\* The loop of get_cube_corner_values from corner i on
GetCubeCornerValuesFrom(vol, coord, i, values) ==
    IF i > 7 THEN Some(values)
    ELSE With(VolGetVoxel(vol, Vec3iAdd(coord, CORNER_OFFSETS[i + 1])), LAMBDA voxel :
             IF ~IsActive(voxel) THEN None
             ELSE GetCubeCornerValuesFrom(vol, coord, i + 1,
                                          Append(values, SignedDistanceOf(voxel))))

GetCubeCornerValues(vol, coord) == GetCubeCornerValuesFrom(vol, coord, 0, <<>>)

RECURSIVE CalculateCubeIndexFrom(_, _, _)
\* The loop of calculate_cube_index from corner i on
CalculateCubeIndexFrom(corner_values, iso_level, i) ==
    IF i > 7 THEN 0
    ELSE (IF LessThanIso(corner_values[i + 1], iso_level) THEN Shl1(i) ELSE 0)
         + CalculateCubeIndexFrom(corner_values, iso_level, i + 1)

\* calculate_cube_index with value <= iso_level as the test of a corner
CalculateCubeIndexMutantLe(corner_values, iso_level) ==
    LET bit(i) == IF \/ LessThanIso(corner_values[i + 1], iso_level)
                     \/ IsFinite(iso_level) /\ corner_values[i + 1] = iso_level.num
                  THEN Shl1(i) ELSE 0
    IN  bit(0) + bit(1) + bit(2) + bit(3) + bit(4) + bit(5) + bit(6) + bit(7)

CalculateCubeIndex(corner_values, iso_level) ==
    CalculateCubeIndexFrom(corner_values, iso_level, 0)

\* The reciprocal of the 1e-6 of interpolate_edge_vertex
EpsilonInverse == 1000000

\* f32::abs
AbsF(x) == IF x < 0 THEN -x ELSE x

\* (val2 - val1).abs() < 1e-6, for values in units of 1/SdUnit
NearlyEqual(val1, val2) == AbsF(val2 - val1) <= (SdUnit - 1) \div EpsilonInverse

\* interpolate_edge_vertex without the clamp of t
InterpolationFactorMutantNoClamp(val1, val2, iso_level) ==
    IF NearlyEqual(val1, val2) THEN [num |-> 1, den |-> 2]
    ELSE IF val2 > val1 THEN [num |-> iso_level.num - val1, den |-> val2 - val1]
    ELSE [num |-> val1 - iso_level.num, den |-> val1 - val2]

\* The interpolation factor t of interpolate_edge_vertex as a fraction of
\* positive denominator, clamped to [0, 1]
InterpolationFactor(val1, val2, iso_level) ==
    IF NearlyEqual(val1, val2) THEN [num |-> 1, den |-> 2]
    ELSE With(IF val2 > val1 THEN [num |-> iso_level.num - val1, den |-> val2 - val1]
              ELSE [num |-> val1 - iso_level.num, den |-> val1 - val2], LAMBDA t :
             IF t.num < 0 THEN [num |-> 0, den |-> 1]
             ELSE IF t.num > t.den THEN [num |-> 1, den |-> 1]
             ELSE t)

InterpolateEdgeVertex(corner_values, coord, edge, iso_level, leaf_size) ==
    With(EDGE_VERTEX_INDICES[edge + 1], LAMBDA edge_indices :
    With(InterpolationFactor(corner_values[edge_indices[1] + 1],
                             corner_values[edge_indices[2] + 1], iso_level), LAMBDA t :
    With(Vec3iAdd(coord, CORNER_OFFSETS[edge_indices[1] + 1]), LAMBDA c1 :
    With(Vec3iAdd(coord, CORNER_OFFSETS[edge_indices[2] + 1]), LAMBDA c2 :
        [num |-> [a \in 1 .. 3 |->
                     c1[a] * leaf_size * t.den
                     + (c2[a] * leaf_size - c1[a] * leaf_size) * t.num],
         den |-> t.den]))))

\* edge_vertices of process_cube: a position per edge of the mask, the zero
\* vector for the others
EdgeVertices(corner_values, coord, iso_level, leaf_size, edge_mask) ==
    [edge \in 0 .. 11 |->
        IF BitAnd(edge_mask, Shl1(edge)) # 0
        THEN InterpolateEdgeVertex(corner_values, coord, edge, iso_level, leaf_size)
        ELSE Vec3fZero]

RECURSIVE TriangleLoop(_, _, _, _)
\* The while loop of process_cube over the row of the triangle table
TriangleLoop(mesh, triangle_data, edge_vertices, i) ==
    IF ~(i < 16 /\ triangle_data[i + 1] # -1) THEN mesh
    ELSE With(AddVertex(mesh, [position |-> edge_vertices[triangle_data[i + 1]]]),
              LAMBDA v1 :
         With(AddVertex(v1.mesh, [position |-> edge_vertices[triangle_data[i + 2]]]),
              LAMBDA v2 :
         With(AddVertex(v2.mesh, [position |-> edge_vertices[triangle_data[i + 3]]]),
              LAMBDA v3 :
             TriangleLoop(AddTriangle(v3.mesh,
                                      [indices |-> <<v1.index, v2.index, v3.index>>]),
                          triangle_data, edge_vertices, i + 3))))

\* process_cube: the mesh after the cube of low corner coord; the Result
\* is always Ok, AlgorithmError having no variant
ProcessCube(vol, mesh, coord, iso_level) ==
    [ok   |-> TRUE,
     mesh |-> With(GetCubeCornerValues(vol, coord), LAMBDA corner_values :
                  IF ~IsSome(corner_values) THEN mesh
                  ELSE With(CalculateCubeIndex(Unwrap(corner_values), iso_level),
                            LAMBDA cube_index :
                           IF cube_index = 0 \/ cube_index = 255 THEN mesh
                           ELSE TriangleLoop(mesh, TRIANGLE_TABLE(cube_index),
                                             EdgeVertices(Unwrap(corner_values), coord,
                                                          iso_level,
                                                          vol.config.leaf_voxel_size,
                                                          EDGE_MASKS(cube_index)),
                                             0)))]

RECURSIVE GenerateMeshLoop(_, _, _, _, _)
\* The for loop of generate_mesh over the active voxels left; cubes records,
\* per coordinate processed, the vertices and triangles its cube added
GenerateMeshLoop(vol, iso_level, items, mesh, cubes) ==
    IF items = <<>> THEN [ok |-> TRUE, mesh |-> mesh, cubes |-> cubes]
    ELSE With(ProcessCube(vol, mesh, Head(items)[1], iso_level), LAMBDA r :
             IF ~r.ok THEN [ok |-> FALSE, mesh |-> mesh, cubes |-> cubes]
             ELSE GenerateMeshLoop(vol, iso_level, Tail(items), r.mesh,
                      Append(cubes,
                             [coord     |-> Head(items)[1],
                              vertices  |-> VertexCount(r.mesh) - VertexCount(mesh),
                              triangles |-> TriangleCount(r.mesh) - TriangleCount(mesh)])))

GenerateMesh(vol, iso_level) ==
    GenerateMeshLoop(vol, iso_level, VolActiveVoxels(vol), MeshNew, <<>>)

(***************************************************************************)
(* mesh_generation/mesh_builder.rs: MeshBuilder.  given is the sequence of *)
(* the iso levels with_iso_level was called with.                          *)
(***************************************************************************)
MeshBuilderNew == [iso_level |-> None, given |-> <<>>]

MeshBuilderWithIsoLevel(self, iso_level) ==
    [iso_level |-> Some(iso_level), given |-> Append(self.given, iso_level)]

\* MeshBuilder::build without the validation of the iso level
MeshBuilderBuildMutantNoValidation(self, vol) ==
    IF ~IsSome(self.iso_level)
    THEN [kind |-> "NoIsoLevel", value |-> None, mesh |-> None, cubes |-> <<>>,
          ran |-> FALSE]
    ELSE With(GenerateMesh(vol, Unwrap(self.iso_level)), LAMBDA r :
             IF r.ok
             THEN [kind |-> "Ok", value |-> None, mesh |-> Some(r.mesh),
                   cubes |-> r.cubes, ran |-> TRUE]
             ELSE [kind |-> "GenerationFailed", value |-> None, mesh |-> None,
                   cubes |-> r.cubes, ran |-> TRUE])

\* MeshBuilder::build: the Result, the cubes the algorithm processed and
\* whether generate_mesh was called
MeshBuilderBuild(self, vol) ==
    IF ~IsSome(self.iso_level)
    THEN [kind |-> "NoIsoLevel", value |-> None, mesh |-> None, cubes |-> <<>>,
          ran |-> FALSE]
    ELSE IF ~IsFinite(Unwrap(self.iso_level))
    THEN [kind |-> "InvalidIsoLevel", value |-> self.iso_level, mesh |-> None,
          cubes |-> <<>>, ran |-> FALSE]
    ELSE With(GenerateMesh(vol, Unwrap(self.iso_level)), LAMBDA r :
             IF r.ok
             THEN [kind |-> "Ok", value |-> None, mesh |-> Some(r.mesh),
                   cubes |-> r.cubes, ran |-> TRUE]
             ELSE [kind |-> "GenerationFailed", value |-> None, mesh |-> None,
                   cubes |-> r.cubes, ran |-> TRUE])

(***************************************************************************)
(* The state.  run holds, for each volume built by                         *)
(* VoxelVolume::with_config (one per shape, all driven by the same         *)
(* calls), the outcome of the last call on it: the volume after the call,  *)
(* the value the call returned and whether it panicked.  last is the call  *)
(* itself.  reference is the map a caller expects a volume to implement:   *)
(* for each coordinate Some(v) when the last call on it was                *)
(* set_voxel(c, v), None when it was never set or was last removed.        *)
(* fills describes the fill_bounds calls made: their number, the           *)
(* arguments of the last one and, per volume, the voxel coordinates it     *)
(* handed to the generator and the set_voxel calls it made.  key_in is an  *)
(* argument of ChildNodeTrait::key (a coordinate and the cumulative LOG2   *)
(* of the node type) and key_out its result once evaluated.  ctor is a     *)
(* call of with_config for some payload type and its outcome.  builder is  *)
(* the MeshBuilder, once created, with the iso levels it has been given,   *)
(* and built the outcome of build() on each volume.  probe is a call of a  *)
(* function evaluated on its own, with its arguments, and probed its       *)
(* result once evaluated.  leaf is a LeafNode driven directly through its  *)
(* own methods.                                                            *)
(***************************************************************************)
VARIABLES run, last, reference, fills, key_in, key_out, ctor, builder, built,
          probe, probed, leaf

vars == <<run, last, reference, fills, key_in, key_out, ctor, builder, built,
         probe, probed, leaf, overflow_checks>>

\* The function evaluated on its own and the leaf driven on its own
apart == <<probe, probed, leaf>>

\* What the calls on the volumes leave alone: the construction under test,
\* the mesh builder, the build profile and what is evaluated apart
aside == <<ctor, builder, built, overflow_checks, apart>>

\* No function under evaluation
NoProbe == [fn |-> "none"]

\* The coordinates of the point operations: (1,2,3) and (5,2,3) lie in
\* different root slots of Default, in one root slot but different leaf
\* slots of Hashx2x1 and in one leaf slot of Hashx5x4; (31,-31,-65) lies in
\* a root slot of negative key, at the upper end of its Hashx2x1 slot.
Coords == {<<1, 2, 3>>, <<5, 2, 3>>, <<31, -31, -65>>}

\* leaf_voxel_size values, in world units: 0.5, 1.0 and 2.0
LeafVoxelSizes == {WorldUnit \div 2, WorldUnit, WorldUnit * 2}

\* The corners given to fill_bounds, in world units
FillCorners == {<<0, 0, 0>>, <<WorldUnit, WorldUnit, WorldUnit>>,
                <<2 * WorldUnit, WorldUnit, WorldUnit>>,
                <<-(WorldUnit + WorldUnit \div 2), 0, WorldUnit>>}

\* The arguments given to key: components around the node boundaries and
\* at both ends of i32, and the cumulative LOG2 of every node type of the
\* three shapes (leaves 1, 2, 4; internal nodes 3, 9) and of the tests (5)
KeyComponents == {-513, -65, -31, -1, 0, 31, I32Min, I32Max}

KeyLog2s == {1, 2, 3, 4, 5, 9}

KeyInputs == (KeyComponents \X KeyComponents \X KeyComponents) \X KeyLog2s

NoCall == [op |-> "none", coord |-> <<0, 0, 0>>, value |-> Background]

NoFill == [count |-> 0, min |-> <<0, 0, 0>>, max |-> <<0, 0, 0>>, gen |-> "skip",
           calls |-> [s \in Shapes |-> <<>>], sets |-> [s \in Shapes |-> <<>>]]

\* The payload types a volume is built for: any background value, any set
\* of active values
PayloadTypes == [background : Values, active : SUBSET Values]

\* No construction under test
NoCtor == [payload |-> I32Payload, config |-> [volume_config_type |-> "Default",
                                               leaf_voxel_size    |-> WorldUnit],
           result |-> None]

\* The volumes of the given shapes as with_config leaves them
NewVolumes(shapes, leaf_voxel_size) ==
    [s \in shapes |->
        With(WithConfig([volume_config_type |-> s,
                         leaf_voxel_size    |-> leaf_voxel_size]), LAMBDA r :
            [volume |-> r.volume, ret |-> None, panic |-> r.panic])]

Volumes == DOMAIN run

Panicked == \E s \in Volumes : run[s].panic

\* One volume of each shape, no call made yet
Init ==
    /\ run = NewVolumes(Shapes, WorldUnit)
    /\ last = NoCall
    /\ reference = [c \in Coords |-> None]
    /\ fills = NoFill
    /\ key_in = <<<<0, 0, 0>>, 0>>
    /\ key_out = None
    /\ ctor = NoCtor
    /\ builder = None
    /\ built = None
    /\ probe = NoProbe
    /\ probed = None
    /\ leaf = None
    /\ overflow_checks = TRUE

\* set_voxel(coord, value) on every volume
SetVoxel(coord, value) ==
    /\ ~Panicked
    /\ run' = [s \in Volumes |-> VolSetVoxel(run[s].volume, coord, value)]
    /\ last' = [op |-> "set", coord |-> coord, value |-> value]
    /\ reference' = [reference EXCEPT ![coord] = Some(value)]
    /\ UNCHANGED <<fills, key_in, key_out, aside>>

\* remove_voxel(coord) on every volume
RemoveVoxel(coord) ==
    /\ ~Panicked
    /\ run' = [s \in Volumes |->
                  With(VolRemoveVoxel(run[s].volume, coord), LAMBDA r :
                      [volume |-> r.volume, ret |-> r.ret, panic |-> FALSE])]
    /\ last' = [op |-> "remove", coord |-> coord, value |-> Background]
    /\ reference' = [reference EXCEPT ![coord] = None]
    /\ UNCHANGED <<fills, key_in, key_out, aside>>

Next ==
    \/ \E coord \in Coords, value \in Values : SetVoxel(coord, value)
    \/ \E coord \in Coords : RemoveVoxel(coord)

Spec == Init /\ [][Next]_vars

(***************************************************************************)
(* SpecKey: ChildNodeTrait::key on its own, and the root slot a first      *)
(* write selects with it.                                                  *)
(***************************************************************************)
InitKey ==
    /\ run = NewVolumes(Shapes, WorldUnit)
    /\ last = NoCall
    /\ reference = [c \in Coords |-> None]
    /\ fills = NoFill
    /\ key_in \in KeyInputs
    /\ key_out = None
    /\ ctor = NoCtor
    /\ builder = None
    /\ built = None
    /\ probe = NoProbe
    /\ probed = None
    /\ leaf = None
    /\ overflow_checks = TRUE

\* N::key(coord) for a node type N of cumulative LOG2 key_in[2]
EvalKey ==
    /\ key_out = None
    /\ key_out' = Some(Key(key_in[1], key_in[2]))
    /\ UNCHANGED <<run, last, reference, fills, key_in, aside>>

\* The first set_voxel of an active payload at the coordinate, on every
\* volume; the coordinate is kept a node's width away from the ends of i32
KeyWrite ==
    /\ key_out # None
    /\ last = NoCall
    /\ \A a \in 1 .. 3 : key_in[1][a] > -1024 /\ key_in[1][a] < 1024
    /\ run' = [s \in Volumes |-> VolSetVoxel(run[s].volume, key_in[1], 1)]
    /\ last' = [op |-> "set", coord |-> key_in[1], value |-> 1]
    /\ UNCHANGED <<reference, fills, key_in, key_out, aside>>

NextKey == EvalKey \/ KeyWrite

SpecKey == InitKey /\ [][NextKey]_vars

(***************************************************************************)
(* SpecFill: fill_bounds on volumes of every leaf_voxel_size.              *)
(***************************************************************************)
InitFill ==
    /\ \E leaf_voxel_size \in LeafVoxelSizes :
           run = NewVolumes(Shapes, leaf_voxel_size)
    /\ last = NoCall
    /\ reference = [c \in Coords |-> None]
    /\ fills = NoFill
    /\ key_in = <<<<0, 0, 0>>, 0>>
    /\ key_out = None
    /\ ctor = NoCtor
    /\ builder = None
    /\ built = None
    /\ probe = NoProbe
    /\ probed = None
    /\ leaf = None
    /\ overflow_checks = TRUE

\* fill_bounds(min, max, gen) on every volume
Fill(min, max, gen) ==
    /\ ~Panicked
    /\ fills.count < MaxFills
    /\ run' = [s \in Volumes |->
                  With(FillBounds(run[s].volume, min, max, gen), LAMBDA r :
                      [volume |-> r.volume, ret |-> Some(r.count), panic |-> r.panic])]
    /\ fills' = [count |-> fills.count + 1, min |-> min, max |-> max, gen |-> gen,
                 calls |-> [s \in Volumes |->
                               FillBounds(run[s].volume, min, max, gen).calls],
                 sets  |-> [s \in Volumes |->
                               FillBounds(run[s].volume, min, max, gen).sets]]
    /\ last' = [op |-> "fill", coord |-> <<0, 0, 0>>, value |-> Background]
    /\ UNCHANGED <<reference, key_in, key_out, aside>>

NextFill == \E min \in FillCorners, max \in FillCorners, gen \in Generators :
                Fill(min, max, gen)

SpecFill == InitFill /\ [][NextFill]_vars

(***************************************************************************)
(* SpecNew: with_config for a payload type T of any background() and       *)
(* is_active(), and the root slot size of the volume built.                *)
(***************************************************************************)
\* leaf_voxel_size values of the volumes built, in world units: 0.5, 1.0
\* and 2.5
NewVoxelSizes == {WorldUnit \div 2, WorldUnit, (5 * WorldUnit) \div 2}

InitNew ==
    /\ run = NewVolumes(Shapes, WorldUnit)
    /\ last = NoCall
    /\ reference = [c \in Coords |-> None]
    /\ fills = NoFill
    /\ key_in = <<<<0, 0, 0>>, 0>>
    /\ key_out = None
    /\ \E T \in PayloadTypes, s \in Shapes, leaf_voxel_size \in NewVoxelSizes :
           ctor = [payload |-> T,
                   config  |-> [volume_config_type |-> s,
                                leaf_voxel_size    |-> leaf_voxel_size],
                   result  |-> None]
    /\ builder = None
    /\ built = None
    /\ probe = NoProbe
    /\ probed = None
    /\ leaf = None
    /\ overflow_checks = TRUE

\* VoxelVolume::<T>::with_config(config)
Construct ==
    /\ ctor.result = None
    /\ ctor' = [ctor EXCEPT !.result = Some(WithConfigOf(ctor.payload, ctor.config))]
    /\ UNCHANGED <<run, last, reference, fills, key_in, key_out, builder, built,
                   overflow_checks, apart>>

\* get_root_voxel_size() on the volume built, with the log2_cum() of its
\* root
RootVoxelSize ==
    /\ IsSome(ctor.result)
    /\ ~Unwrap(ctor.result).panic
    /\ probed = None
    /\ probe' = [fn |-> "get_root_voxel_size"]
    /\ probed' = Some([log2_cum |-> RootLog2Cum(ShapeOf(Unwrap(ctor.result).volume)),
                       size     |-> GetRootVoxelSize(Unwrap(ctor.result).volume)])
    /\ UNCHANGED <<run, last, reference, fills, key_in, key_out, ctor, builder, built,
                   leaf, overflow_checks>>

NextNew == Construct \/ RootVoxelSize

SpecNew == InitNew /\ [][NextNew]_vars

(***************************************************************************)
(* SpecWide: the first set_voxel on volumes of every shape at coordinates  *)
(* near both ends of i32, in builds with and without overflow checks.      *)
(***************************************************************************)
\* Components at the ends of i32 and at the start of the last leaf of
\* Default (extent 4) and of the last internal node of Hashx5x4 (extent 512)
WideComponents == {I32Min, I32Min + 1, 0, I32Max - 511, I32Max - 3, I32Max}

WideCoords == WideComponents \X WideComponents \X WideComponents

InitWide ==
    /\ run = NewVolumes(Shapes, WorldUnit)
    /\ last = NoCall
    /\ reference = [c \in Coords |-> None]
    /\ fills = NoFill
    /\ key_in = <<<<0, 0, 0>>, 0>>
    /\ key_out = None
    /\ ctor = NoCtor
    /\ builder = None
    /\ built = None
    /\ probe = NoProbe
    /\ probed = None
    /\ leaf = None
    /\ overflow_checks \in BOOLEAN

\* The first set_voxel(coord, value) on every volume
SetVoxelWide(coord, value) ==
    /\ last = NoCall
    /\ run' = [s \in Volumes |-> VolSetVoxel(run[s].volume, coord, value)]
    /\ last' = [op |-> "set", coord |-> coord, value |-> value]
    /\ UNCHANGED <<reference, fills, key_in, key_out, aside>>

NextWide == \E coord \in WideCoords, value \in Values : SetVoxelWide(coord, value)

SpecWide == InitWide /\ [][NextWide]_vars

(***************************************************************************)
(* SpecMesh: a MeshBuilder on volumes that one fill_bounds has populated.  *)
(* The generators write the payloads 1 and 2, and 1 only at z = 0, so the  *)
(* inside corners of a cube lie on its bottom face.                        *)
(***************************************************************************)
MeshGenerators == {"corner", "layer", "strip", "halfspace"}

MeshVoxelSizes == {WorldUnit \div 2, WorldUnit}

MeshMins == {<<0, 0, 0>>, <<-WorldUnit, 0, 0>>}

MeshMaxs == {<<2 * WorldUnit, WorldUnit, WorldUnit>>}

\* The iso levels given to with_iso_level: NaN, +infinity, 1.0, 1.5 and 2.5
IsoLevels == {F32NaN, F32Inf, F32(SdUnit), F32(SdUnit + SdUnit \div 2),
              F32(2 * SdUnit + SdUnit \div 2)}

\* fill_bounds(min, max, gen) on the volume of every shape as with_config
\* leaves it
FilledVolumes(leaf_voxel_size, min, max, gen) ==
    [s \in Shapes |->
        FillBounds(NewVolumes(Shapes, leaf_voxel_size)[s].volume, min, max, gen)]

InitMesh ==
    /\ overflow_checks = TRUE
    /\ \E leaf_voxel_size \in MeshVoxelSizes, min \in MeshMins, max \in MeshMaxs,
          gen \in MeshGenerators :
           With(FilledVolumes(leaf_voxel_size, min, max, gen), LAMBDA filled :
               /\ run = [s \in Shapes |->
                            [volume |-> filled[s].volume, ret |-> Some(filled[s].count),
                             panic  |-> filled[s].panic]]
               /\ fills = [count |-> 1, min |-> min, max |-> max, gen |-> gen,
                           calls |-> [s \in Shapes |-> filled[s].calls],
                           sets  |-> [s \in Shapes |-> filled[s].sets]])
    /\ last = [op |-> "fill", coord |-> <<0, 0, 0>>, value |-> Background]
    /\ reference = [c \in Coords |-> None]
    /\ key_in = <<<<0, 0, 0>>, 0>>
    /\ key_out = None
    /\ ctor = NoCtor
    /\ builder = None
    /\ built = None
    /\ probe = NoProbe
    /\ probed = None
    /\ leaf = None

\* MeshBuilder::new(&volume)
NewBuilder ==
    /\ builder = None
    /\ ~Panicked
    /\ builder' = Some(MeshBuilderNew)
    /\ UNCHANGED <<run, last, reference, fills, key_in, key_out, ctor, built,
                   overflow_checks, apart>>

\* builder.with_iso_level(iso_level)
WithIsoLevel(iso_level) ==
    /\ IsSome(builder)
    /\ built = None
    /\ Len(Unwrap(builder).given) < MaxIsoLevels
    /\ builder' = Some(MeshBuilderWithIsoLevel(Unwrap(builder), iso_level))
    /\ UNCHANGED <<run, last, reference, fills, key_in, key_out, ctor, built,
                   overflow_checks, apart>>

\* builder.build(), on the volume of every shape
Build ==
    /\ IsSome(builder)
    /\ built = None
    /\ built' = Some([s \in Volumes |-> MeshBuilderBuild(Unwrap(builder), run[s].volume)])
    /\ UNCHANGED <<run, last, reference, fills, key_in, key_out, ctor, builder,
                   overflow_checks, apart>>

NextMesh ==
    \/ NewBuilder
    \/ \E iso_level \in IsoLevels : WithIsoLevel(iso_level)
    \/ Build

SpecMesh == InitMesh /\ [][NextMesh]_vars

(***************************************************************************)
(* The properties.  RefValue(c) is what the reference map reads at c;      *)
(* Vol(s) is the volume of shape s after the last call.                    *)

(***************************************************************************)
(* SpecStl: export_stl_binary of a mesh to a writer.                       *)
(***************************************************************************)
\* Vertex positions, in world units: the corners of a face of a cube and a
\* point of an edge of it
StlPoints ==
    << [num |-> <<0, 0, 0>>, den |-> 1],
       [num |-> <<WorldUnit, 0, 0>>, den |-> 1],
       [num |-> <<0, WorldUnit, 0>>, den |-> 1],
       [num |-> <<WorldUnit, 2 * WorldUnit, -WorldUnit>>, den |-> 2] >>

\* The triangles of the meshes, as indices into the vertices: two proper
\* triangles, one of them of a fractional vertex, and two of no area
StlTriangles ==
    {[indices |-> <<0, 1, 2>>], [indices |-> <<2, 1, 3>>],
     [indices |-> <<0, 0, 0>>], [indices |-> <<1, 3, 1>>]}

RECURSIVE SeqsUpTo(_, _)
\* The sequences of at most n elements of S
SeqsUpTo(S, n) ==
    IF n = 0 THEN {<<>>}
    ELSE SeqsUpTo(S, n - 1)
         \cup {Append(q, x) : q \in {r \in SeqsUpTo(S, n - 1) : Len(r) = n - 1}, x \in S}

\* The meshes exported: the vertices of StlPoints and up to MaxTriangles
\* triangles over them
StlMeshes ==
    {[vertices  |-> [i \in 1 .. Len(StlPoints) |-> [position |-> StlPoints[i]]],
      triangles |-> tris] : tris \in SeqsUpTo(StlTriangles, MaxTriangles)}

\* The writers: one that grows and buffers that end inside the header,
\* after the triangle count, inside the first triangle and after it
StlLimits == {None, Some(40), Some(84), Some(100), Some(134)}

InitStl ==
    /\ overflow_checks = TRUE
    /\ run = NewVolumes(Shapes, WorldUnit)
    /\ last = NoCall
    /\ reference = [c \in Coords |-> None]
    /\ fills = NoFill
    /\ key_in = <<<<0, 0, 0>>, 0>>
    /\ key_out = None
    /\ ctor = NoCtor
    /\ builder = None
    /\ built = None
    /\ \E mesh \in StlMeshes, limit \in StlLimits :
           probe = [fn |-> "export_stl_binary", mesh |-> mesh, limit |-> limit]
    /\ probed = None
    /\ leaf = None

\* mesh.export_stl_binary(&mut writer)
ExportStl ==
    /\ probed = None
    /\ probed' = Some(ExportStlBinary(probe.mesh, WriterNew(probe.limit)))
    /\ UNCHANGED <<run, last, reference, fills, key_in, key_out, ctor, builder, built,
                   probe, leaf, overflow_checks>>

NextStl == ExportStl

SpecStl == InitStl /\ [][NextStl]_vars

(***************************************************************************)
(* SpecRound: voxel_to_world_coord followed by world_to_voxel_coord.       *)
(***************************************************************************)
\* Voxel coordinate components: small ones of both signs and the integers
\* around 2^24
RoundComponents == {-(F32Exact + 1), -5, 0, 3, F32Exact, F32Exact + 1, F32Exact + 3}

RoundCoords == RoundComponents \X RoundComponents \X RoundComponents

InitRound ==
    /\ overflow_checks = TRUE
    /\ run = NewVolumes(Shapes, WorldUnit)
    /\ last = NoCall
    /\ reference = [c \in Coords |-> None]
    /\ fills = NoFill
    /\ key_in = <<<<0, 0, 0>>, 0>>
    /\ key_out = None
    /\ ctor = NoCtor
    /\ builder = None
    /\ built = None
    /\ \E voxel_coord \in RoundCoords, leaf_voxel_size \in LeafVoxelSizes :
           probe = [fn |-> "round_trip", voxel_coord |-> voxel_coord,
                    leaf_voxel_size |-> leaf_voxel_size]
    /\ probed = None
    /\ leaf = None

\* world_to_voxel_coord(voxel_to_world_coord(voxel_coord)) on a volume of
\* the leaf_voxel_size
RoundTrip ==
    /\ probed = None
    /\ probed' =
           With(WithConfig([volume_config_type |-> "Default",
                            leaf_voxel_size    |-> probe.leaf_voxel_size]).volume,
                LAMBDA vol :
               With(VoxelToWorldCoord(vol, probe.voxel_coord), LAMBDA world :
                   Some([world |-> world, voxel |-> WorldToVoxelCoord(vol, world)])))
    /\ UNCHANGED <<run, last, reference, fills, key_in, key_out, ctor, builder, built,
                   probe, leaf, overflow_checks>>

NextRound == RoundTrip

SpecRound == InitRound /\ [][NextRound]_vars

(***************************************************************************)
(* SpecSwap: two set_voxel calls on distinct coordinates made in one order *)
(* on the volumes of run and in the other order on copies of them, held    *)
(* by probed, after at most one earlier write made on both.                *)
(***************************************************************************)
SwapInputs ==
    {[fn |-> "swap", c |-> c, v |-> v, d |-> d, w |-> w, step |-> 0] :
        c \in Coords, d \in Coords, v \in Values, w \in Values}

InitSwap ==
    /\ overflow_checks = TRUE
    /\ run = NewVolumes(Shapes, WorldUnit)
    /\ last = NoCall
    /\ reference = [c \in Coords |-> None]
    /\ fills = NoFill
    /\ key_in = <<<<0, 0, 0>>, 0>>
    /\ key_out = None
    /\ ctor = NoCtor
    /\ builder = None
    /\ built = None
    /\ probe \in {i \in SwapInputs : i.c # i.d}
    /\ probed = Some([s \in Shapes |-> NewVolumes(Shapes, WorldUnit)[s].volume])
    /\ leaf = None

\* An earlier set_voxel(coord, value), on the volumes and on the copies
SwapEarlier(coord, value) ==
    /\ probe.step = 0
    /\ last = NoCall
    /\ run' = [s \in Volumes |-> VolSetVoxel(run[s].volume, coord, value)]
    /\ probed' = Some([s \in Volumes |->
                          VolSetVoxel(Unwrap(probed)[s], coord, value).volume])
    /\ last' = [op |-> "set", coord |-> coord, value |-> value]
    /\ UNCHANGED <<reference, fills, key_in, key_out, ctor, builder, built, probe, leaf,
                   overflow_checks>>

\* The first call of each order: set_voxel(c, v) on the volumes,
\* set_voxel(d, w) on the copies
SwapFirst ==
    /\ probe.step = 0
    /\ run' = [s \in Volumes |-> VolSetVoxel(run[s].volume, probe.c, probe.v)]
    /\ probed' = Some([s \in Volumes |->
                          VolSetVoxel(Unwrap(probed)[s], probe.d, probe.w).volume])
    /\ probe' = [probe EXCEPT !.step = 1]
    /\ last' = [op |-> "set", coord |-> probe.c, value |-> probe.v]
    /\ UNCHANGED <<reference, fills, key_in, key_out, ctor, builder, built, leaf,
                   overflow_checks>>

\* The second call of each order: set_voxel(d, w) on the volumes,
\* set_voxel(c, v) on the copies
SwapSecond ==
    /\ probe.step = 1
    /\ run' = [s \in Volumes |-> VolSetVoxel(run[s].volume, probe.d, probe.w)]
    /\ probed' = Some([s \in Volumes |->
                          VolSetVoxel(Unwrap(probed)[s], probe.c, probe.v).volume])
    /\ probe' = [probe EXCEPT !.step = 2]
    /\ last' = [op |-> "set", coord |-> probe.d, value |-> probe.w]
    /\ UNCHANGED <<reference, fills, key_in, key_out, ctor, builder, built, leaf,
                   overflow_checks>>

NextSwap ==
    \/ \E coord \in Coords, value \in Values : SwapEarlier(coord, value)
    \/ SwapFirst
    \/ SwapSecond

SpecSwap == InitSwap /\ [][NextSwap]_vars

(***************************************************************************)
(* SpecLeaf: one leaf node, created as the tree creates it (its box starts *)
(* at the coordinate given to create: a coordinate written, or its key)    *)
(* and driven through set_voxel, remove_voxel, clear, optimize and the     *)
(* index conversions.  leaf holds the shape whose leaf type it is and the  *)
(* node, probe the last call, probed what the call was made on or answered.*)
(***************************************************************************)
LeafOrigins(shape) == Coords \cup {Key(c, LeafLog2Cum(shape)) : c \in Coords}

\* Offsets from the origin of the coordinates written: three inside the
\* box of every leaf type, one outside
LeafOffsets == {<<0, 0, 0>>, <<1, 0, 0>>, <<1, 1, 1>>, <<-1, 0, 0>>}

\* Offsets of the coordinates converted: those written, the last corner of
\* the box and the first coordinate after it along x
LeafIndexOffsets(shape) ==
    LeafOffsets \cup {<<Shl1(LeafLog2(shape)) - 1, Shl1(LeafLog2(shape)) - 1,
                        Shl1(LeafLog2(shape)) - 1>>,
                      <<Shl1(LeafLog2(shape)), 0, 0>>}

InitLeaf ==
    /\ overflow_checks = TRUE
    /\ run = NewVolumes(Shapes, WorldUnit)
    /\ last = NoCall
    /\ reference = [c \in Coords |-> None]
    /\ fills = NoFill
    /\ key_in = <<<<0, 0, 0>>, 0>>
    /\ key_out = None
    /\ ctor = NoCtor
    /\ builder = None
    /\ built = None
    /\ probe = [fn |-> "create"]
    /\ probed = None
    /\ \E shape \in Shapes : \E key \in LeafOrigins(shape) :
           leaf = Some([shape |-> shape,
                        node  |-> LeafCreate(LeafLog2(shape), key, 0)])

LeafNode == Unwrap(leaf).node

LeafShape == Unwrap(leaf).shape

leafless == <<run, last, reference, fills, key_in, key_out, ctor, builder, built,
              overflow_checks>>

\* LeafNode::set_voxel(origin + offset, value)
SetLeafVoxel(offset, value) ==
    /\ IsSome(leaf)
    /\ With(LeafSetVoxel(LeafNode, LeafLog2(LeafShape),
                         Vec3iAdd(LeafNode.origin, offset), value), LAMBDA r :
           /\ leaf' = Some([shape |-> LeafShape, node |-> r.node])
           /\ probed' = Some([before |-> LeafNode, ret |-> r.ret]))
    /\ probe' = [fn |-> "set_voxel", coord |-> Vec3iAdd(LeafNode.origin, offset),
                 value |-> value]
    /\ UNCHANGED leafless

\* LeafNode::remove_voxel(origin + offset)
RemoveLeafVoxel(offset) ==
    /\ IsSome(leaf)
    /\ With(LeafRemoveVoxel(LeafNode, LeafLog2(LeafShape),
                            Vec3iAdd(LeafNode.origin, offset)), LAMBDA r :
           /\ leaf' = Some([shape |-> LeafShape, node |-> r.node])
           /\ probed' = Some([before |-> LeafNode, ret |-> r.ret]))
    /\ probe' = [fn |-> "remove_voxel", coord |-> Vec3iAdd(LeafNode.origin, offset)]
    /\ UNCHANGED leafless

\* LeafNode::clear()
ClearLeaf ==
    /\ IsSome(leaf)
    /\ leaf' = Some([shape |-> LeafShape, node |-> LeafClear(LeafNode)])
    /\ probed' = Some([before |-> LeafNode, ret |-> None])
    /\ probe' = [fn |-> "clear"]
    /\ UNCHANGED leafless

\* LeafNode::optimize()
OptimizeLeaf ==
    /\ IsSome(leaf)
    /\ leaf' = Some([shape |-> LeafShape, node |-> LeafOptimize(LeafNode)])
    /\ probed' = Some([before |-> LeafNode, ret |-> None])
    /\ probe' = [fn |-> "optimize"]
    /\ UNCHANGED leafless

\* coord_to_index(origin + offset) and index_to_coord of what it answers
IndexLeafCoord(offset) ==
    /\ IsSome(leaf)
    /\ With(LeafCoordToIndex(LeafNode, LeafLog2(LeafShape),
                             Vec3iAdd(LeafNode.origin, offset)), LAMBDA index :
           probed' = Some([index |-> index,
                           coord |-> IF IsSome(index)
                                     THEN Some(LeafIndexToCoord(LeafNode,
                                                   LeafLog2(LeafShape), Unwrap(index)))
                                     ELSE None]))
    /\ probe' = [fn |-> "coord_to_index", coord |-> Vec3iAdd(LeafNode.origin, offset)]
    /\ UNCHANGED <<leafless, leaf>>

NextLeaf ==
    \/ \E offset \in LeafOffsets, value \in Values : SetLeafVoxel(offset, value)
    \/ \E offset \in LeafOffsets : RemoveLeafVoxel(offset)
    \/ ClearLeaf
    \/ OptimizeLeaf
    \/ \E offset \in LeafIndexOffsets(LeafShape) : IndexLeafCoord(offset)

SpecLeaf == InitLeaf /\ [][NextLeaf]_vars

(***************************************************************************)
(* SpecSlot: coord_to_index and index_to_coord of an internal node created *)
(* by from_level_and_coord, on two coordinates at a time.                  *)
(***************************************************************************)
SlotShapes == {s \in Shapes : HasInternal(s)}

\* Offsets from the node's origin of the coordinates converted, in terms of
\* the child extent u and the node extent n: in the first child slot, in
\* its neighbours along each axis, in the last slot, and outside the node
SlotOffsets(shape) ==
    LET u == Shl1(LeafLog2Cum(shape))
        n == Shl1(InternalLog2Cum(shape))
    IN  {<<0, 0, 0>>, <<u - 1, u - 1, u - 1>>, <<u, 0, 0>>, <<0, u, 0>>,
         <<0, 0, u>>, <<u + 1, u - 1, 0>>, <<n - 1, u, 2 * u - 1>>,
         <<n - 1, n - 1, n - 1>>, <<-1, 0, 0>>, <<0, n, 0>>}

InitSlot ==
    /\ overflow_checks = TRUE
    /\ run = NewVolumes(Shapes, WorldUnit)
    /\ last = NoCall
    /\ reference = [c \in Coords |-> None]
    /\ fills = NoFill
    /\ key_in = <<<<0, 0, 0>>, 0>>
    /\ key_out = None
    /\ ctor = NoCtor
    /\ builder = None
    /\ built = None
    /\ \E shape \in SlotShapes, at \in Coords \cup {<<0, 0, 0>>} :
           \E c \in SlotOffsets(shape), d \in SlotOffsets(shape) :
               With(InternalFromLevelAndCoord(shape, 0, at, Background), LAMBDA node :
                   probe = [fn |-> "internal_coord_to_index", shape |-> shape,
                            node |-> node,
                            c |-> Vec3iAdd(node.origin, c),
                            d |-> Vec3iAdd(node.origin, d)])
    /\ probed = None
    /\ leaf = None

\* index_to_coord(coord_to_index(coord)) on the node, None when coord_to_index
\* answers None
SlotOf(node, shape, coord) ==
    With(InternalCoordToIndex(node, shape, coord), LAMBDA index :
        [index |-> index,
         coord |-> IF IsSome(index)
                   THEN Some(InternalIndexToCoord(node, shape, Unwrap(index)))
                   ELSE None])

SlotIndex ==
    /\ probe.fn = "internal_coord_to_index"
    /\ probed = None
    /\ probed' = Some([c |-> SlotOf(probe.node, probe.shape, probe.c),
                       d |-> SlotOf(probe.node, probe.shape, probe.d)])
    /\ UNCHANGED <<run, last, reference, fills, key_in, key_out, ctor, builder, built,
                   probe, leaf, overflow_checks>>

NextSlot == SlotIndex

SpecSlot == InitSlot /\ [][NextSlot]_vars

(***************************************************************************)
(* SpecEdge: interpolate_edge_vertex on its own, for one edge of one cube. *)
(***************************************************************************)
\* Corner values and iso levels, in units of 1/SdUnit: -1.0, 0.0, 0.5, 1.0
\* and 2.0
EdgeValues == {-SdUnit, 0, SdUnit \div 2, SdUnit, 2 * SdUnit}

EdgeCoords == {<<0, 0, 0>>, <<-3, 1, 2>>}

\* The corner values of a cube whose edge has val1 at its first corner and
\* val2 at its second
EdgeCornerValues(edge, val1, val2) ==
    [i \in 1 .. 8 |->
        IF i = EDGE_VERTEX_INDICES[edge + 1][1] + 1 THEN val1
        ELSE IF i = EDGE_VERTEX_INDICES[edge + 1][2] + 1 THEN val2
        ELSE 0]

EdgeInputs ==
    {[fn |-> "interpolate_edge_vertex", corner_values |-> EdgeCornerValues(edge, a, b),
      coord |-> coord, edge |-> edge, iso_level |-> F32(iso), leaf_size |-> leaf_size] :
        edge \in 0 .. 11, a \in EdgeValues, b \in EdgeValues, iso \in EdgeValues,
        coord \in EdgeCoords, leaf_size \in MeshVoxelSizes}

InitEdge ==
    /\ overflow_checks = TRUE
    /\ run = NewVolumes(Shapes, WorldUnit)
    /\ last = NoCall
    /\ reference = [c \in Coords |-> None]
    /\ fills = NoFill
    /\ key_in = <<<<0, 0, 0>>, 0>>
    /\ key_out = None
    /\ ctor = NoCtor
    /\ builder = None
    /\ built = None
    /\ probe \in EdgeInputs
    /\ probed = None
    /\ leaf = None

\* interpolate_edge_vertex(corner_values, coord, edge, iso_level, leaf_size):
\* the factor t it computes and the position it returns
EvalEdge ==
    /\ probed = None
    /\ probed' = Some(
           [t        |-> InterpolationFactor(
                             probe.corner_values[EDGE_VERTEX_INDICES[probe.edge + 1][1] + 1],
                             probe.corner_values[EDGE_VERTEX_INDICES[probe.edge + 1][2] + 1],
                             probe.iso_level),
            position |-> InterpolateEdgeVertex(probe.corner_values, probe.coord,
                                               probe.edge, probe.iso_level,
                                               probe.leaf_size)])
    /\ UNCHANGED <<run, last, reference, fills, key_in, key_out, ctor, builder, built,
                   probe, leaf, overflow_checks>>

NextEdge == EvalEdge

SpecEdge == InitEdge /\ [][NextEdge]_vars

(***************************************************************************)
RefValue(c) == IF IsSome(reference[c]) THEN Unwrap(reference[c]) ELSE Background

Vol(s) == run[s].volume

\* C1: read-after-write against the reference map.  In every shape and after
\* every sequence of set_voxel / remove_voxel calls, get_voxel(c) is the
\* value of the last set_voxel on c, or the background if c was never set or
\* was last removed.
C1_ReadAfterWrite ==
    \A s \in Volumes : \A c \in Coords : VolGetVoxel(Vol(s), c) = RefValue(c)

\* The case of C1: a second coordinate of an occupied leaf slot has been
\* written with an active payload.
C1_Witness ==
    /\ last.op = "set" /\ last.coord = <<1, 2, 3>> /\ IsActive(last.value)
    /\ IsSome(reference[<<5, 2, 3>>]) /\ IsActive(RefValue(<<5, 2, 3>>))

\* C2: population accounting.  After every sequence of calls, active_count()
\* is the number of coordinates whose last set_voxel wrote an active payload
\* and that were not removed afterwards.
C2_PopulationAccounting ==
    \A s \in Volumes :
        VolActiveCount(Vol(s)) = Cardinality({c \in Coords : IsActive(RefValue(c))})

\* The value C3 expects a call on c to return: Some(old) when the last
\* operation on c wrote a non-background old, None when c was never set or
\* was last removed.
C3_Expected(c) == IF IsSome(reference[c]) THEN reference[c] ELSE None

\* C3: displaced-value return.  set_voxel(c, v) and remove_voxel(c) return
\* Some(old) when the last operation on c was set_voxel(c, old) with a
\* non-background old, and None when c was never set or was last removed.
C3_DisplacedValue ==
    [][(last'.op \in {"set", "remove"}
        /\ ~(IsSome(reference[last'.coord]) /\ RefValue(last'.coord) = Background))
       => \A s \in Volumes : run'[s].ret = C3_Expected(last'.coord)]_vars

\* The scenario of C3 on one coordinate, at its end: remove(c) has returned
\* Some(b), nothing is active and c reads background.
C3_Witness ==
    /\ last.op = "remove"
    /\ \A s \in Volumes :
           /\ run[s].ret = Some(2)
           /\ VolActiveCount(Vol(s)) = 0
           /\ VolGetVoxel(Vol(s), last.coord) = Background

\* C4: active iteration is exact.  The active-voxel iterator yields each
\* coordinate c with is_active(c) exactly once, paired with get_voxel(c),
\* yields no other coordinate, and yields active_count() items.
C4_ActiveIterationExact ==
    \A s \in Volumes :
        LET items == VolActiveVoxels(Vol(s))
        IN  /\ \A c \in Coords :
                   VolIsActive(Vol(s), c) =>
                       /\ Cardinality({n \in DOMAIN items : items[n][1] = c}) = 1
                       /\ \A n \in DOMAIN items :
                              items[n][1] = c => items[n][2] = VolGetVoxel(Vol(s), c)
            /\ \A n \in DOMAIN items : VolIsActive(Vol(s), items[n][1])
            /\ Len(items) = VolActiveCount(Vol(s))

\* The number of stored payloads equal to the background
BackgroundStored(vol) ==
    LET items == VolAllVoxels(vol)
    IN  Cardinality({n \in DOMAIN items : items[n][2] = Background})

\* The leaf that the descent for coord ends in, if any
LeafOf(vol, coord) ==
    With(RootFindChild(vol.root, ShapeOf(vol), coord), LAMBDA child :
        IF HasInternal(ShapeOf(vol)) /\ IsSome(child)
        THEN InternalFindChild(Unwrap(child), ShapeOf(vol), coord)
        ELSE child)

\* The leaf of coord exists and coord_to_index takes coord
LeafAccepts(vol, coord) ==
    /\ IsSome(LeafOf(vol, coord))
    /\ IsSome(LeafCoordToIndex(Unwrap(LeafOf(vol, coord)), LeafLog2(ShapeOf(vol)), coord))

\* The content of the slot of coord in its leaf: None without a leaf
StoredAt(vol, coord) ==
    IF IsSome(LeafOf(vol, coord))
    THEN LeafGetVoxelOpt(Unwrap(LeafOf(vol, coord)), LeafLog2(ShapeOf(vol)), coord)
    ELSE None

\* C5 as the spec states it: no slot of any leaf holds a payload equal to
\* the background, so all_voxels yields none and total_count() counts none.
C5_NoStoredBackground ==
    \A s \in Volumes : BackgroundStored(Vol(s)) = 0

\* C5: a payload equal to the background is stored by set_voxel(c,
\* background()) when the leaf of c exists and takes c, and only then: that
\* call leaves Some(background) in the slot of c, which total_count()
\* counts; when there is no such leaf the slot stays None; and no other call
\* adds a stored background.
C5_BackgroundStoredInExistingLeaf ==
    [][\A s \in Volumes :
          LET before == BackgroundStored(run[s].volume)
              after  == BackgroundStored(run'[s].volume)
          IN  IF last'.op = "set" /\ last'.value = Background
              THEN /\ StoredAt(run'[s].volume, last'.coord)
                         = IF LeafAccepts(run[s].volume, last'.coord)
                           THEN Some(Background) ELSE None
                   /\ after <= before + 1
                   /\ VolTotalCount(run'[s].volume) >= after
              ELSE after <= before]_vars

\* The case of C5: the background has been written into an existing leaf
\* and is stored there.
C5_Witness ==
    /\ last.op = "set" /\ last.value = Background
    /\ \E s \in Volumes :
           /\ StoredAt(Vol(s), last.coord) = Some(Background)
           /\ BackgroundStored(Vol(s)) > 0

\* child_count of every internal node, by root slot
InternalChildCounts(vol) ==
    IF HasInternal(ShapeOf(vol))
    THEN [k \in DOMAIN vol.root.children |-> InternalChildCount(vol.root.children[k])]
    ELSE <<>>

\* C6: background elision.  set_voxel(c, background()) at a coordinate
\* whose root slot has no child, or whose internal-node slot is absent,
\* returns None, creates no node at any level and leaves child_count,
\* active_count, total_count and bounds unchanged.
C6_BackgroundElision ==
    [][\A s \in Volumes :
          (/\ last'.op = "set" /\ last'.value = Background
           /\ ~IsSome(LeafOf(run[s].volume, last'.coord)))
          => /\ run'[s].ret = None
             /\ RootChildCount(run'[s].volume.root) = RootChildCount(run[s].volume.root)
             /\ InternalChildCounts(run'[s].volume) = InternalChildCounts(run[s].volume)
             /\ VolActiveCount(run'[s].volume) = VolActiveCount(run[s].volume)
             /\ VolTotalCount(run'[s].volume) = VolTotalCount(run[s].volume)
             /\ VolBounds(run'[s].volume) = VolBounds(run[s].volume)]_vars

\* The case of C6, in a volume that is not empty: the background has been
\* written where Default has no root child and where Hashx2x1 has a root
\* child without the internal slot, and neither has a leaf for it since.
C6_Witness ==
    /\ last.op = "set" /\ last.value = Background
    /\ ~IsSome(RootFindChild(Vol("Default").root, "Default", last.coord))
    /\ IsSome(RootFindChild(Vol("Hashx2x1").root, "Hashx2x1", last.coord))
    /\ ~IsSome(LeafOf(Vol("Hashx2x1"), last.coord))
    /\ run["Default"].ret = None /\ run["Hashx2x1"].ret = None
    /\ VolActiveCount(Vol("Default")) > 0

\* floor(c / 2^L) * 2^L
FloorSnap(c, L) == (c \div (2 ^ L)) * (2 ^ L)

FloorSnap3(coord, L) ==
    <<FloorSnap(coord[1], L), FloorSnap(coord[2], L), FloorSnap(coord[3], L)>>

C8_ShapeIndependence ==
    \A s \in Volumes : \A t \in Volumes :
        /\ run[s].ret = run[t].ret
        /\ VolActiveCount(Vol(s)) = VolActiveCount(Vol(t))
        /\ VolTotalCount(Vol(s)) = VolTotalCount(Vol(t))
        /\ \A c \in Coords :
               /\ VolGetVoxel(Vol(s), c) = VolGetVoxel(Vol(t), c)
               /\ VolIsActive(Vol(s), c) = VolIsActive(Vol(t), c)

\* C9: bounds correctness.  Every coordinate the active-voxel iterator
\* yields is contained in bounds().
C9_BoundsContainActive ==
    \A s \in Volumes :
        LET items == VolActiveVoxels(Vol(s))
        IN  \A n \in DOMAIN items : Contains(VolBounds(Vol(s)), items[n][1])

\* The coordinates of the half-open box [min, max), x fastest, then y, then
\* z; none when the box is empty on some axis
BoxSeq(min, max) ==
    LET nx == max[1] - min[1]
        ny == max[2] - min[2]
        nz == max[3] - min[3]
    IN  IF nx <= 0 \/ ny <= 0 \/ nz <= 0 THEN <<>>
        ELSE [n \in 1 .. nx * ny * nz |->
                 <<min[1] + ((n - 1) % nx),
                   min[2] + (((n - 1) \div nx) % ny),
                   min[3] + ((n - 1) \div (nx * ny))>>]

\* C10: fill_bounds enumeration.  fill_bounds(min_w, max_w, gen) gives gen
\* each voxel coordinate of the half-open box [voxel(min_w), voxel(max_w))
\* exactly once, x fastest, then y, then z, and no other coordinate: none at
\* all when the box is empty on some axis.
C10_FillEnumeration ==
    fills.count > 0 =>
        \A s \in Volumes :
            fills.calls[s] = BoxSeq(WorldToVoxelCoord(Vol(s), fills.min),
                                    WorldToVoxelCoord(Vol(s), fills.max))

\* A fill of a box that is not empty, where the enumeration is the box
C10_Witness ==
    /\ fills.count > 0
    /\ \A s \in Volumes :
           /\ Len(fills.calls[s]) > 1
           /\ fills.calls[s] = BoxSeq(WorldToVoxelCoord(Vol(s), fills.min),
                                      WorldToVoxelCoord(Vol(s), fills.max))

RECURSIVE AcceptedCalls(_, _, _)
\* The (coordinate, payload) pairs of the coordinates of calls for which the
\* generator returns a payload, in order
AcceptedCalls(vol, gen, calls) ==
    IF calls = <<>> THEN <<>>
    ELSE LET value == GenApply(gen, VoxelToWorldCoord(vol, Head(calls)))
             rest  == AcceptedCalls(vol, gen, Tail(calls))
         IN  IF IsSome(value) THEN <<<<Head(calls), Unwrap(value)>>>> \o rest ELSE rest

\* C11: fill_bounds count.  fill_bounds returns the number of enumerated
\* coordinates for which the generator returned a payload and calls
\* set_voxel(c, payload) for exactly those; with a generator that always
\* returns None it returns 0 and leaves the volume unchanged.
C11_FillCount ==
    [][\A s \in Volumes :
          LET accepted == AcceptedCalls(run[s].volume, fills'.gen, fills'.calls[s])
          IN  /\ run'[s].ret = Some(Len(accepted))
              /\ fills'.sets[s] = accepted
              /\ fills'.gen = "skip" =>
                     /\ run'[s].ret = Some(0)
                     /\ run'[s].volume = run[s].volume]_vars

\* The cases of C11: a fill whose generator took some coordinates and left
\* others, and a fill whose generator took none of several.
C11_Witness ==
    /\ fills.count > 0
    /\ \E s \in Volumes :
           /\ Len(fills.sets[s]) > 0
           /\ Len(fills.sets[s]) < Len(fills.calls[s])
           /\ run[s].ret = Some(Len(fills.sets[s]))

\* Coordinates read on a freshly built volume: the ones written later, the
\* origin and the corners of the i32 range
ProbeCoords ==
    Coords \cup {<<0, 0, 0>>, <<-1, -1, -1>>,
                 <<I32Max, I32Max, I32Max>>, <<I32Min, I32Min, I32Min>>,
                 <<I32Min, 0, I32Max>>}

\* C12: fresh volume.  Before any call, a volume of every shape has
\* active_count 0, total_count 0, bounds equal to Bounds3i::empty(), an empty
\* active-voxel iterator, and for every coordinate is_active false and
\* get_voxel equal to the background value.
C12_FreshVolume ==
    (last = NoCall /\ fills.count = 0) =>
        \A s \in Volumes :
            /\ ~run[s].panic
            /\ VolActiveCount(Vol(s)) = 0
            /\ VolTotalCount(Vol(s)) = 0
            /\ VolBounds(Vol(s)) = [min |-> <<I32Max, I32Max, I32Max>>,
                                    max |-> <<I32Min, I32Min, I32Min>>]
            /\ VolActiveVoxels(Vol(s)) = <<>>
            /\ \A c \in ProbeCoords :
                   /\ ~VolIsActive(Vol(s), c)
                   /\ VolGetVoxel(Vol(s), c) = Background

\* The case of C12: one volume of each shape has been built and no call
\* has been made on any of them.
C12_Witness ==
    /\ last = NoCall
    /\ fills.count = 0
    /\ Volumes = Shapes
    /\ \A s \in Volumes : ~run[s].panic /\ RootChildCount(Vol(s).root) = 0

\* C13: inactive background enforced.  Building a volume of any shape for a
\* payload type is rejected exactly when the type's background value is
\* active, so every volume that exists has an inactive background value.
C13_InactiveBackground ==
    IsSome(ctor.result) =>
        LET r == Unwrap(ctor.result)
            T == ctor.payload
        IN  /\ r.panic <=> (T.background \in T.active)
            /\ ~r.panic =>
                   /\ r.volume.root.background_value = T.background
                   /\ r.volume.root.background_value \notin T.active

\* The case of C13: a volume of shape Hashx5x4 was asked for a payload type
\* whose background value is active while another value is not, and the
\* construction was rejected.
C13_Witness ==
    /\ IsSome(ctor.result)
    /\ Unwrap(ctor.result).panic
    /\ ctor.config.volume_config_type = "Hashx5x4"
    /\ ctor.payload.background \in ctor.payload.active
    /\ ctor.payload.active # Values

\* C14: any coordinate is accepted.  For every coordinate of 32-bit signed
\* components, those near i32::MAX and i32::MIN included, the first
\* set_voxel(c, v) of a non-background v completes without failure on every
\* shape and get_voxel(c) then returns v.
C14_AnyCoordinateAccepted ==
    (last.op = "set" /\ last.value # Background) =>
        \A s \in Volumes :
            /\ ~run[s].panic
            /\ VolGetVoxel(Vol(s), last.coord) = last.value

\* A write that C14 is about and that fails without a panic: in the build
\* without overflow checks the Default volume returns from set_voxel at a
\* coordinate of x = i32::MAX and then reads the background there.
C14_Witness ==
    /\ last.op = "set" /\ last.value # Background
    /\ last.coord[1] = I32Max
    /\ ~overflow_checks
    /\ ~run["Default"].panic
    /\ VolGetVoxel(Vol("Default"), last.coord) = Background

\* The slots of the internal nodes of a volume that hold a leaf, per root key
InternalSlots(vol) ==
    IF HasInternal(ShapeOf(vol))
    THEN [k \in DOMAIN vol.root.children |-> DOMAIN vol.root.children[k].data]
    ELSE <<>>

\* C15: nodes live for the volume's lifetime.  Across set_voxel and
\* remove_voxel the child_count of the root and of every internal node never
\* decreases, every child present before a call is present after it, and
\* remove_voxel leaves the root's child_count as it was: a set followed by a
\* remove of the same coordinate leaves the root with its one child.
C15_NodesNeverPruned ==
    [][\A s \in Volumes :
          LET old == run[s].volume
              new == run'[s].volume
          IN  /\ RootChildCount(new.root) >= RootChildCount(old.root)
              /\ DOMAIN old.root.children \subseteq DOMAIN new.root.children
              /\ \A k \in DOMAIN InternalSlots(old) :
                     /\ InternalSlots(old)[k] \subseteq InternalSlots(new)[k]
                     /\ InternalChildCounts(new)[k] >= InternalChildCounts(old)[k]
              /\ last'.op = "remove" =>
                     /\ RootChildCount(new.root) = RootChildCount(old.root)
                     /\ InternalChildCounts(new) = InternalChildCounts(old)]_vars

\* The case of C15: a voxel was set and the same coordinate removed, every
\* volume stores nothing, and its root still has the one child (and, in the
\* shapes with internal nodes, that child its one leaf).
C15_Witness ==
    /\ last.op = "remove"
    /\ \A s \in Volumes :
           /\ run[s].ret # None
           /\ VolTotalCount(Vol(s)) = 0
           /\ RootChildCount(Vol(s).root) = 1
           /\ \A k \in DOMAIN InternalSlots(Vol(s)) :
                  Cardinality(InternalSlots(Vol(s))[k]) = 1

\* C16: remove on miss.  remove_voxel(c) at a coordinate with no stored
\* payload (no covering child, absent internal slot or empty leaf slot)
\* returns None, creates no node and leaves get_voxel of every coordinate,
\* active_count, total_count and bounds unchanged; a second remove_voxel(c)
\* right after a successful one returns None.
C16_RemoveOnMiss ==
    [][\A s \in Volumes :
          LET old == run[s].volume
              new == run'[s].volume
          IN  /\ (last'.op = "remove" /\ StoredAt(old, last'.coord) = None) =>
                     /\ run'[s].ret = None
                     /\ DOMAIN new.root.children = DOMAIN old.root.children
                     /\ InternalSlots(new) = InternalSlots(old)
                     /\ \A c \in ProbeCoords : VolGetVoxel(new, c) = VolGetVoxel(old, c)
                     /\ VolActiveCount(new) = VolActiveCount(old)
                     /\ VolTotalCount(new) = VolTotalCount(old)
                     /\ VolBounds(new) = VolBounds(old)
              /\ (/\ last.op = "remove" /\ run[s].ret # None
                  /\ last'.op = "remove" /\ last'.coord = last.coord) =>
                     run'[s].ret = None]_vars

\* The cases of C16 in volumes that store a voxel: remove_voxel has missed
\* where Default has no covering child, where Hashx2x1 has the root child
\* but not the internal slot, and where Hashx5x4 has the leaf but an empty
\* slot.
C16_Witness ==
    /\ last.op = "remove"
    /\ \A s \in Volumes : run[s].ret = None /\ VolTotalCount(Vol(s)) > 0
    /\ ~IsSome(RootFindChild(Vol("Default").root, "Default", last.coord))
    /\ IsSome(RootFindChild(Vol("Hashx2x1").root, "Hashx2x1", last.coord))
    /\ ~IsSome(LeafOf(Vol("Hashx2x1"), last.coord))
    /\ LeafAccepts(Vol("Hashx5x4"), last.coord)
    /\ StoredAt(Vol("Hashx5x4"), last.coord) = None

\* The coordinates of Coords at which the volume stores a payload
StoredCoords(vol) == {c \in Coords : StoredAt(vol, c) # None}

\* The smallest half-open box that contains the coordinates of a non-empty
\* set
TightBox(coords) ==
    LET lo(a) == CHOOSE x \in {c[a] : c \in coords} : \A c \in coords : x <= c[a]
        hi(a) == CHOOSE x \in {c[a] : c \in coords} : \A c \in coords : x >= c[a]
    IN  [min |-> <<lo(1), lo(2), lo(3)>>, max |-> <<hi(1) + 1, hi(2) + 1, hi(3) + 1>>]

\* The boxes of the children of the root
ChildBoxes(vol) ==
    {ChildBounds(ShapeOf(vol), vol.root.children[k]) : k \in DOMAIN vol.root.children}

CubeCorners(c) ==
    [i \in 0 .. 7 |-> <<c[1] + CORNER_OFFSETS[i + 1][1],
                        c[2] + CORNER_OFFSETS[i + 1][2],
                        c[3] + CORNER_OFFSETS[i + 1][3]>>]

\* The corners of the cube whose signed distance is below the finite iso
\* level
InsideCorners(vol, c, iso_level) ==
    {i \in 0 .. 7 : SignedDistanceOf(VolGetVoxel(vol, CubeCorners(c)[i])) < iso_level.num}

\* The gate of the mesher: all eight corners active, and a cube index that
\* is neither 0 (no corner inside) nor 255 (every corner inside)
CubeGate(vol, c, iso_level) ==
    /\ \A i \in 0 .. 7 : VolIsActive(vol, CubeCorners(c)[i])
    /\ InsideCorners(vol, c, iso_level) # {}
    /\ InsideCorners(vol, c, iso_level) # 0 .. 7

\* The outcome of build() on the volume of shape s
Built(s) == Unwrap(built)[s]

\* C18: the cube gate.  The mesher processes the coordinates the active
\* iterator yields, in order, and the cube of low corner c adds vertices or
\* triangles only if its eight corners are all active and its cube index
\* (bit i set iff the signed distance of corner i is below the iso level) is
\* neither 0 nor 255.
C18_CubeGate ==
    IsSome(built) =>
        \A s \in Volumes :
            Built(s).kind = "Ok" =>
                /\ [n \in DOMAIN Built(s).cubes |-> Built(s).cubes[n].coord]
                       = [n \in DOMAIN VolActiveVoxels(Vol(s)) |->
                             VolActiveVoxels(Vol(s))[n][1]]
                /\ \A n \in DOMAIN Built(s).cubes :
                       (Built(s).cubes[n].vertices > 0 \/ Built(s).cubes[n].triangles > 0)
                           => CubeGate(Vol(s), Built(s).cubes[n].coord,
                                       Unwrap(Unwrap(builder).iso_level))

\* The cases of C18 in one mesh of every shape: a cube that added
\* triangles, a cube skipped for an inactive corner and a cube skipped with
\* eight active corners and cube index 0.
C18_Witness ==
    /\ IsSome(built)
    /\ \A s \in Volumes :
           /\ Built(s).kind = "Ok"
           /\ \E n \in DOMAIN Built(s).cubes : Built(s).cubes[n].triangles > 0
           /\ \E n \in DOMAIN Built(s).cubes :
                  /\ Built(s).cubes[n].triangles = 0
                  /\ \E i \in 0 .. 7 :
                         ~VolIsActive(Vol(s), CubeCorners(Built(s).cubes[n].coord)[i])
           /\ \E n \in DOMAIN Built(s).cubes :
                  /\ Built(s).cubes[n].triangles = 0
                  /\ \A i \in 0 .. 7 :
                         VolIsActive(Vol(s), CubeCorners(Built(s).cubes[n].coord)[i])
                  /\ InsideCorners(Vol(s), Built(s).cubes[n].coord,
                                   Unwrap(Unwrap(builder).iso_level)) = {}

\* C19: mesh index validity.  Every triangle of a mesh that build() returns
\* references three vertex indices below the vertex count, and the vertex
\* count is three times the triangle count.
C19_MeshIndexValidity ==
    IsSome(built) =>
        \A s \in Volumes :
            IsSome(Built(s).mesh) =>
                LET mesh == Unwrap(Built(s).mesh)
                IN  /\ \A n \in DOMAIN mesh.triangles, k \in 1 .. 3 :
                           /\ mesh.triangles[n].indices[k] >= 0
                           /\ mesh.triangles[n].indices[k] < VertexCount(mesh)
                    /\ VertexCount(mesh) = 3 * TriangleCount(mesh)

\* The case of C19: build() has returned, for every shape, a mesh of
\* several triangles.
C19_Witness ==
    /\ IsSome(built)
    /\ \A s \in Volumes :
           /\ IsSome(Built(s).mesh)
           /\ TriangleCount(Unwrap(Built(s).mesh)) >= 2

\* C20: builder validation.  build() returns NoIsoLevel when with_iso_level
\* was never called and InvalidIsoLevel(t) when the last level set, t, is
\* NaN or infinite, in both cases without running the algorithm; otherwise
\* it returns the mesh the algorithm produces for the last level set.
C20_BuilderValidation ==
    IsSome(built) =>
        \A s \in Volumes :
            LET given == Unwrap(builder).given
                t     == given[Len(given)]
            IN  IF given = <<>>
                THEN /\ Built(s).kind = "NoIsoLevel"
                     /\ ~Built(s).ran
                     /\ Built(s).mesh = None
                ELSE IF t.kind # "finite"
                THEN /\ Built(s).kind = "InvalidIsoLevel"
                     /\ Built(s).value = Some(t)
                     /\ ~Built(s).ran
                     /\ Built(s).mesh = None
                ELSE /\ Built(s).kind = "Ok"
                     /\ Built(s).mesh = Some(GenerateMesh(Vol(s), t).mesh)

\* The case of C20: with_iso_level was called with 1.5 and then with NaN on
\* volumes for which 1.5 gives triangles, and build() has returned
\* InvalidIsoLevel(NaN) without running the algorithm.
C20_Witness ==
    /\ IsSome(built)
    /\ Unwrap(builder).given = <<F32(SdUnit + SdUnit \div 2), F32NaN>>
    /\ \A s \in Volumes :
           /\ Built(s).kind = "InvalidIsoLevel"
           /\ Built(s).value = Some(F32NaN)
           /\ ~Built(s).ran
           /\ TriangleCount(GenerateMesh(Vol(s), F32(SdUnit + SdUnit \div 2)).mesh) > 0

\* The two corner values of the edge under evaluation
EdgeVal(k) == probe.corner_values[EDGE_VERTEX_INDICES[probe.edge + 1][k] + 1]

\* The world position of corner k of the edge, in world units
EdgeCorner(k) ==
    [a \in 1 .. 3 |->
        probe.leaf_size
        * (probe.coord[a] + CORNER_OFFSETS[EDGE_VERTEX_INDICES[probe.edge + 1][k] + 1][a])]

\* |b - a| < 1e-6 for the two corner values of the edge
EdgeFlat == AbsF(EdgeVal(2) - EdgeVal(1)) * EpsilonInverse < SdUnit

\* t is 0.5 on a flat edge and (iso - a) / (b - a) clamped to [0, 1]
\* otherwise
EdgeFactorAsStated ==
    LET t   == Unwrap(probed).t
        a   == EdgeVal(1)
        b   == EdgeVal(2)
        iso == probe.iso_level.num
        sgn == IF b > a THEN 1 ELSE -1
        num == sgn * (iso - a)
        den == sgn * (b - a)
    IN  /\ t.den > 0
        /\ IF EdgeFlat THEN 2 * t.num = t.den
           ELSE IF num < 0 THEN t.num = 0
           ELSE IF num > den THEN t.num = t.den
           ELSE t.num * den = num * t.den

\* The position returned lies on the segment between the two corner
\* positions: it is collinear with them and inside their box
EdgeOnSegment ==
    LET pos == Unwrap(probed).position
        p1  == EdgeCorner(1)
        p2  == EdgeCorner(2)
        d   == [a \in 1 .. 3 |-> pos.num[a] - p1[a] * pos.den]
        e   == [a \in 1 .. 3 |-> p2[a] - p1[a]]
    IN  /\ pos.den > 0
        /\ d[2] * e[3] - d[3] * e[2] = 0
        /\ d[3] * e[1] - d[1] * e[3] = 0
        /\ d[1] * e[2] - d[2] * e[1] = 0
        /\ \A a \in 1 .. 3 :
               /\ MinI(p1[a], p2[a]) * pos.den <= pos.num[a]
               /\ pos.num[a] <= MaxI(p1[a], p2[a]) * pos.den

C22_RootSlotExtent ==
    IsSome(probed) /\ probe.fn = "get_root_voxel_size" =>
        LET shape == ctor.config.volume_config_type
            cum   == CASE shape = "Default"  -> 2
                       [] shape = "Hashx2x1" -> 2 + 1
                       [] shape = "Hashx5x4" -> 5 + 4
            width == CASE shape = "Default"  -> 4
                       [] shape = "Hashx2x1" -> 8
                       [] shape = "Hashx5x4" -> 512
        IN  /\ Unwrap(probed).log2_cum = cum
            /\ 2 ^ cum = width
            /\ Unwrap(probed).size = width * ctor.config.leaf_voxel_size

\* The case of C22: get_root_voxel_size() on a Default volume of
\* leaf_voxel_size 2.5 has returned 10.0.
C22_Witness ==
    /\ IsSome(probed)
    /\ probe.fn = "get_root_voxel_size"
    /\ ctor.config.volume_config_type = "Default"
    /\ 2 * ctor.config.leaf_voxel_size = 5 * WorldUnit
    /\ Unwrap(probed).size = 10 * WorldUnit

\* The u32 a little-endian image of four u8 bytes stands for
U32OfLe(bytes) ==
    bytes[1].val.num + 256 * bytes[2].val.num + 65536 * bytes[3].val.num
    + 16777216 * bytes[4].val.num

\* The bytes are the four bytes, in order, of the f32 x
IsF32Image(bytes, x) ==
    \A k \in 1 .. 4 : bytes[k] = [of |-> "f32", val |-> x, k |-> k - 1]

\* C23: the binary STL layout.  A successful export_stl_binary of a mesh of
\* n triangles writes 84 + 50 * n bytes: 80 bytes of header that start with
\* the label yanvox_mesh_binary_export and are zero after it, n as a
\* little-endian u32, and per triangle 12 bytes of normal, 36 bytes of its
\* three vertices and two zero bytes.
C23_StlBinaryLayout ==
    IsSome(probed) /\ probe.fn = "export_stl_binary" /\ Unwrap(probed).ok =>
        LET bytes == Unwrap(probed).writer.bytes
            mesh  == probe.mesh
            n     == Len(mesh.triangles)
            label == <<"y", "a", "n", "v", "o", "x", "_", "m", "e", "s", "h", "_",
                       "b", "i", "n", "a", "r", "y", "_", "e", "x", "p", "o", "r", "t">>
            ascii == [c \in {"a", "b", "e", "h", "i", "m", "n", "o", "p", "r", "s", "t",
                             "v", "x", "y", "_"} |->
                         CASE c = "a" -> 97 [] c = "b" -> 98 [] c = "e" -> 101
                           [] c = "h" -> 104 [] c = "i" -> 105 [] c = "m" -> 109
                           [] c = "n" -> 110 [] c = "o" -> 111 [] c = "p" -> 112
                           [] c = "r" -> 114 [] c = "s" -> 115 [] c = "t" -> 116
                           [] c = "v" -> 118 [] c = "x" -> 120 [] c = "y" -> 121
                           [] c = "_" -> 95]
        IN  /\ Len(bytes) = 84 + 50 * n
            /\ \A i \in 1 .. 80 :
                   /\ bytes[i].of = "u8"
                   /\ bytes[i].val.num = IF i <= Len(label) THEN ascii[label[i]] ELSE 0
            /\ \A i \in 81 .. 84 : bytes[i].of = "u8"
            /\ U32OfLe(SubSeq(bytes, 81, 84)) = n
            /\ \A t \in 1 .. n :
                   LET at     == 84 + 50 * (t - 1)
                       normal == CalculateTriangleNormal(mesh, mesh.triangles[t])
                   IN  /\ \A a \in 1 .. 3 :
                              IsF32Image(SubSeq(bytes, at + 4 * a - 3, at + 4 * a),
                                         normal[a])
                       /\ \A v \in 1 .. 3, a \in 1 .. 3 :
                              LET pos == mesh.vertices[mesh.triangles[t].indices[v] + 1]
                                             .position
                                  lo  == at + 12 + 12 * (v - 1) + 4 * (a - 1)
                              IN  IsF32Image(SubSeq(bytes, lo + 1, lo + 4),
                                             Scalar(pos.num[a], pos.den, 0))
                       /\ bytes[at + 49] = U8(0)
                       /\ bytes[at + 50] = U8(0)

\* The case of C23: a mesh of two triangles, the second of a fractional
\* vertex, exported without error: 184 bytes.
C23_Witness ==
    /\ IsSome(probed)
    /\ probe.fn = "export_stl_binary"
    /\ Unwrap(probed).ok
    /\ Len(probe.mesh.triangles) = 2
    /\ probe.mesh.triangles[2].indices = <<2, 1, 3>>
    /\ Len(Unwrap(probed).writer.bytes) = 184

\* C24: the world / voxel round trip.  For every integer voxel coordinate c
\* and positive leaf_voxel_size, converting c to world space and back
\* returns c.
C24_WorldVoxelRoundTrip ==
    IsSome(probed) /\ probe.fn = "round_trip" =>
        Unwrap(probed).voxel = probe.voxel_coord

\* The case of C24: a coordinate of a component above 2^24 has been
\* converted to world space and back on a volume of leaf_voxel_size 1.0,
\* and the coordinate that came back is another one.
C24_Witness ==
    /\ IsSome(probed)
    /\ probe.fn = "round_trip"
    /\ probe.leaf_voxel_size = WorldUnit
    /\ probe.voxel_coord = <<F32Exact + 1, 0, 3>>
    /\ Unwrap(probed).voxel = <<F32Exact, 0, 3>>

\* The half-open box of a node of cumulative LOG2 log2cum whose origin is
\* the key of coord
SnappedBox(coord, log2cum) ==
    LET origin == Key(coord, log2cum)
    IN  [min |-> origin,
         max |-> <<origin[1] + 2 ^ log2cum, origin[2] + 2 ^ log2cum,
                   origin[3] + 2 ^ log2cum>>]

\* C25: node origins are snapped.  Every node created by a write on the
\* path of a coordinate c, internal node or leaf, has its origin at key(c)
\* for its own cumulative LOG2 and the box [origin, origin + 2^cum_log2) as
\* its bounds, so the bounds of a leaf contain every coordinate of its slot.
C25_OriginsSnapped ==
    \A s \in Volumes : \A c \in Coords :
        LET vol   == Vol(s)
            shape == ShapeOf(vol)
            child == RootFindChild(vol.root, shape, c)
            found == LeafOf(vol, c)
        IN  /\ (HasInternal(shape) /\ IsSome(child)) =>
                   /\ Unwrap(child).origin = Key(c, InternalLog2Cum(shape))
                   /\ InternalBounds(Unwrap(child), shape)
                          = SnappedBox(c, InternalLog2Cum(shape))
            /\ IsSome(found) =>
                   /\ Unwrap(found).origin = Key(c, LeafLog2Cum(shape))
                   /\ LeafBounds(Unwrap(found)) = SnappedBox(c, LeafLog2Cum(shape))
                   /\ Contains(LeafBounds(Unwrap(found)), c)

\* The case of C25: the first write, set_voxel((1,2,3), 1), has created a
\* leaf in every volume, and in every shape the leaf's origin is (1,2,3)
\* itself, not the key of (1,2,3); the internal nodes above are snapped.
C25_Witness ==
    /\ last = [op |-> "set", coord |-> <<1, 2, 3>>, value |-> 1]
    /\ \A s \in Volumes :
           /\ RootChildCount(Vol(s).root) = 1
           /\ IsSome(LeafOf(Vol(s), <<1, 2, 3>>))
           /\ Unwrap(LeafOf(Vol(s), <<1, 2, 3>>)).origin = <<1, 2, 3>>
           /\ Key(<<1, 2, 3>>, LeafLog2Cum(ShapeOf(Vol(s)))) # <<1, 2, 3>>
           /\ HasInternal(ShapeOf(Vol(s))) =>
                  Unwrap(RootFindChild(Vol(s).root, ShapeOf(Vol(s)), <<1, 2, 3>>)).origin
                      = <<0, 0, 0>>

\* What a caller can observe of a volume: get_voxel of every coordinate
\* written, the two counts and the coordinates the two iterators yield
Observable(vol) ==
    [get    |-> [c \in Coords |-> VolGetVoxel(vol, c)],
     active |-> VolActiveCount(vol),
     total  |-> VolTotalCount(vol),
     act_it |-> {VolActiveVoxels(vol)[n][1] : n \in DOMAIN VolActiveVoxels(vol)},
     all_it |-> {VolAllVoxels(vol)[n][1] : n \in DOMAIN VolAllVoxels(vol)}]

\* C26: writes to distinct coordinates commute.  From any volume state,
\* set_voxel(c, v) then set_voxel(d, w) leaves the same observable state as
\* set_voxel(d, w) then set_voxel(c, v), for c # d.
C26_WritesCommute ==
    (probe.fn = "swap" /\ probe.step = 2) =>
        \A s \in Volumes : Observable(Vol(s)) = Observable(Unwrap(probed)[s])

\* The case of C26: on fresh volumes (1,2,3) and (5,2,3), which share a
\* leaf slot of Hashx5x4, were written with 1 and 2 in both orders; written
\* first, (1,2,3) reads back 1, written second it reads back the background.
C26_Witness ==
    /\ probe.fn = "swap"
    /\ probe.step = 2
    /\ probe.c = <<1, 2, 3>> /\ probe.v = 1
    /\ probe.d = <<5, 2, 3>> /\ probe.w = 2
    /\ VolGetVoxel(Vol("Hashx5x4"), <<1, 2, 3>>) = 1
    /\ VolGetVoxel(Unwrap(probed)["Hashx5x4"], <<1, 2, 3>>) = Background
    /\ VolTotalCount(Vol("Hashx5x4")) = 2
    /\ VolTotalCount(Unwrap(probed)["Hashx5x4"]) = 1

\* The number of slots of a leaf whose payload is present and active
LeafActiveSlots(node) == Cardinality({i \in DOMAIN node.data : IsActive(node.data[i])})

\* Whether the slot of coord in a leaf holds an active payload
LeafSlotActive(node, log2, coord) ==
    /\ IsSome(LeafCoordToIndex(node, log2, coord))
    /\ Unwrap(LeafCoordToIndex(node, log2, coord)) \in DOMAIN node.data
    /\ IsActive(node.data[Unwrap(LeafCoordToIndex(node, log2, coord))])

\* C27: leaf counter invariant.  After any sequence of set_voxel,
\* remove_voxel, clear and optimize a leaf's active_count is the number of
\* slots whose payload is present and active; set_voxel changes the counter
\* only when the slot's active status changes (by one, in the direction of
\* the change), and remove_voxel decrements it only when the payload
\* removed was active.
C27_LeafCounter ==
    IsSome(leaf) =>
        /\ LeafActiveCount(LeafNode) = LeafActiveSlots(LeafNode)
        /\ probe.fn = "set_voxel" =>
               LET before == Unwrap(probed).before
                   was    == LeafSlotActive(before, LeafLog2(LeafShape), probe.coord)
                   is     == LeafSlotActive(LeafNode, LeafLog2(LeafShape), probe.coord)
               IN  LeafActiveCount(LeafNode) - LeafActiveCount(before) =
                       IF was = is THEN 0 ELSE IF is THEN 1 ELSE -1
        /\ probe.fn = "remove_voxel" =>
               LET before == Unwrap(probed).before
                   was    == LeafSlotActive(before, LeafLog2(LeafShape), probe.coord)
               IN  LeafActiveCount(LeafNode) - LeafActiveCount(before) =
                       IF was THEN -1 ELSE 0

\* The case of C27: an active payload has just replaced another active
\* payload in a leaf that also holds an inactive payload; the counter is 1
\* before and after.
C27_Witness ==
    /\ IsSome(leaf)
    /\ probe.fn = "set_voxel"
    /\ probe.value = 2
    /\ Unwrap(probed).ret = Some(1)
    /\ LeafActiveCount(Unwrap(probed).before) = 1
    /\ LeafActiveCount(LeafNode) = 1
    /\ LeafTotalCount(LeafNode) = 2

\* The index the formula of coord_to_index gives for coord in a leaf of
\* LOG2 log2
LeafIndexAsStated(log2, coord) ==
    BitAnd(coord[1], (2 ^ log2) - 1)
        + BitAnd(coord[2], (2 ^ log2) - 1) * (2 ^ log2)
        + BitAnd(coord[3], (2 ^ log2) - 1) * (2 ^ (2 * log2))

\* C28: leaf index round trip.  For a coordinate c inside the bounds of a
\* leaf of LOG2 L, coord_to_index(c) is (c.x & m) + (c.y & m) * 2^L +
\* (c.z & m) * 2^(2L) with m = 2^L - 1, is below 2^(3L), differs from the
\* index of every other coordinate of the box, and index_to_coord of it is
\* c, for every leaf created by the tree; outside the bounds coord_to_index
\* answers None.
C28_LeafIndexRoundTrip ==
    (IsSome(leaf) /\ probe.fn = "coord_to_index") =>
        LET log2  == LeafLog2(LeafShape)
            index == Unwrap(probed).index
        IN  IF Contains(LeafNode.bounds, probe.coord)
            THEN /\ index = Some(LeafIndexAsStated(log2, probe.coord))
                 /\ Unwrap(index) >= 0
                 /\ Unwrap(index) < 2 ^ (3 * log2)
                 /\ \A offset \in LeafIndexOffsets(LeafShape) :
                        LET d == Vec3iAdd(LeafNode.origin, offset)
                        IN  (d # probe.coord /\ Contains(LeafNode.bounds, d)) =>
                                LeafCoordToIndex(LeafNode, log2, d) # index
                 /\ Unwrap(probed).coord = Some(probe.coord)
            ELSE index = None

\* The case of C28: in the leaf of Hashx5x4 the tree creates for a first
\* write at (1,2,3), whose box starts at (1,2,3), the coordinate (2,3,4) has
\* index 2 + 3*16 + 4*256 and index_to_coord of that index is (3,5,7).
C28_Witness ==
    /\ IsSome(leaf)
    /\ LeafShape = "Hashx5x4"
    /\ LeafNode.origin = <<1, 2, 3>>
    /\ probe.fn = "coord_to_index"
    /\ probe.coord = <<2, 3, 4>>
    /\ Unwrap(probed).index = Some(1074)
    /\ Unwrap(probed).coord = Some(<<3, 5, 7>>)

\* What holds of every leaf: the formula of the index, its
\* range, its injectivity on the box and None outside the box; and the
\* round trip on the leaves whose box starts at their key.
LeafIndexRoundTripOnSnapped ==
    (IsSome(leaf) /\ probe.fn = "coord_to_index") =>
        LET log2  == LeafLog2(LeafShape)
            index == Unwrap(probed).index
        IN  IF Contains(LeafNode.bounds, probe.coord)
            THEN /\ index = Some(LeafIndexAsStated(log2, probe.coord))
                 /\ Unwrap(index) >= 0
                 /\ Unwrap(index) < 2 ^ (3 * log2)
                 /\ \A offset \in LeafIndexOffsets(LeafShape) :
                        LET d == Vec3iAdd(LeafNode.origin, offset)
                        IN  (d # probe.coord /\ Contains(LeafNode.bounds, d)) =>
                                LeafCoordToIndex(LeafNode, log2, d) # index
                 /\ (LeafNode.origin = Key(LeafNode.origin, log2)) =>
                        Unwrap(probed).coord = Some(probe.coord)
            ELSE index = None

\* The slot index the formula of C29 gives for coord in an internal node of
\* own LOG2 L whose children have cumulative LOG2 Lc: l = (c & (2^(L+Lc) - 1))
\* >> Lc per axis, then li + lj * 2^L + lk * 2^(2L)
SlotIndexAsStated(L, Lc, coord) ==
    LET l == [n \in 1 .. 3 |-> BitAnd(coord[n], (2 ^ (L + Lc)) - 1) \div (2 ^ Lc)]
    IN  l[1] + l[2] * (2 ^ L) + l[3] * (2 ^ (2 * L))

\* What C29 says of one coordinate and the answers for it
SlotAsStated(node, shape, coord, slot) ==
    IF Contains(InternalBounds(node, shape), coord)
    THEN /\ slot.index = Some(SlotIndexAsStated(InternalLog2(shape), LeafLog2Cum(shape),
                                                coord))
         /\ Unwrap(slot.index) >= 0
         /\ Unwrap(slot.index) < 2 ^ (3 * InternalLog2(shape))
         /\ slot.coord = Some(Key(coord, LeafLog2Cum(shape)))
    ELSE slot.index = None

\* C29: internal slot index.  For an internal node of own LOG2 L whose
\* child type has cumulative LOG2 Lc, coord_to_index(c) of a coordinate
\* inside the node's bounds, negative ones included, is li + lj * 2^L +
\* lk * 2^(2L) with l = (c & (2^(L+Lc) - 1)) >> Lc, lies in [0, 2^(3L)), is
\* the same for two coordinates exactly when they have the same child key,
\* and index_to_coord of it is that child key; outside the bounds
\* coord_to_index is None.
C29_InternalSlotIndex ==
    (probe.fn = "internal_coord_to_index" /\ IsSome(probed)) =>
        /\ SlotAsStated(probe.node, probe.shape, probe.c, Unwrap(probed).c)
        /\ SlotAsStated(probe.node, probe.shape, probe.d, Unwrap(probed).d)
        /\ ( /\ Contains(InternalBounds(probe.node, probe.shape), probe.c)
             /\ Contains(InternalBounds(probe.node, probe.shape), probe.d) ) =>
               ( Unwrap(probed).c.index = Unwrap(probed).d.index
                 <=> Key(probe.c, LeafLog2Cum(probe.shape))
                         = Key(probe.d, LeafLog2Cum(probe.shape)) )

\* The case of C29: the internal node of Hashx2x1 (L = 2, Lc = 1) created
\* for (31,-31,-65) starts at (24,-32,-72); (31,-30,-69), in its last slot
\* along x, has index 3 + 1*4 + 1*16 and child key (30,-30,-70), and
\* (24,-32,-72) has index 0.
C29_Witness ==
    /\ probe.fn = "internal_coord_to_index"
    /\ IsSome(probed)
    /\ probe.shape = "Hashx2x1"
    /\ probe.node.origin = <<24, -32, -72>>
    /\ probe.c = <<31, -30, -69>>
    /\ probe.d = <<24, -32, -72>>
    /\ Unwrap(probed).c = [index |-> Some(23), coord |-> Some(<<30, -30, -70>>)]
    /\ Unwrap(probed).d = [index |-> Some(0), coord |-> Some(<<24, -32, -72>>)]

\* C30: count consistency.  After any sequence of set_voxel / remove_voxel
\* on any shape, total_count() is the number of items the all-voxels
\* iterator yields, active_count() the number the active-voxels iterator
\* yields, active_count() <= total_count(), and is_active(c) holds exactly
\* when get_voxel(c).is_active() holds, of the volume and of the internal
\* node and the leaf on the path of c.
C30_CountConsistency ==
    \A s \in Volumes :
        /\ VolTotalCount(Vol(s)) = Len(VolAllVoxels(Vol(s)))
        /\ VolActiveCount(Vol(s)) = Len(VolActiveVoxels(Vol(s)))
        /\ VolActiveCount(Vol(s)) <= VolTotalCount(Vol(s))
        /\ \A c \in Coords :
               /\ VolIsActive(Vol(s), c) <=> IsActive(VolGetVoxel(Vol(s), c))
               /\ (HasInternal(s) /\ IsSome(RootFindChild(Vol(s).root, s, c))) =>
                      ( InternalIsActive(Unwrap(RootFindChild(Vol(s).root, s, c)), s, c)
                        <=> IsActive(InternalGetVoxel(
                                Unwrap(RootFindChild(Vol(s).root, s, c)), s, c)) )
               /\ IsSome(LeafOf(Vol(s), c)) =>
                      ( LeafIsActive(Unwrap(LeafOf(Vol(s), c)), LeafLog2(s), c)
                        <=> IsActive(LeafGetVoxel(Unwrap(LeafOf(Vol(s), c)),
                                                  LeafLog2(s), c)) )

\* The case of C30: every shape holds an active and an inactive payload
\* (total_count 2, active_count 1), the inactive one having just been
\* written over an active one.
C30_Witness ==
    /\ last.op = "set"
    /\ last.value = Background
    /\ \A s \in Volumes :
           /\ VolTotalCount(Vol(s)) = 2
           /\ VolActiveCount(Vol(s)) = 1
           /\ Len(VolAllVoxels(Vol(s))) = 2
           /\ Len(VolActiveVoxels(Vol(s))) = 1
           /\ ~VolIsActive(Vol(s), last.coord)

====
